---------------------------- MODULE Spec2Model ----------------------------
(***************************************************************************)
(* The LL(1) parser and code generator of Lua (lparser.c 1.141) as a       *)
(* pushdown machine.  The C call stack is the sequence cs of frames, one   *)
(* per active grammar function; every action is one grammar function, run  *)
(* from the frame's resume point to its next call or return.  The lexer    *)
(* (llex.c) is the environment: every luaX_lex call draws a token.  The    *)
(* code emitter (lcode.c) is not part of lparser.c; it is modelled from    *)
(* its contract (the luaK_ operators below).                               *)
(***************************************************************************)
EXTENDS Integers, Sequences, FiniteSets, TLC

VARIABLES
    t,           \* ls->t: the current token
    lookahead,   \* ls->lookahead: the stashed token, TK_EOS when there is none
    fs,          \* the FuncState chain, outermost first; ls->fs is the last
    cs,          \* the C call stack of the grammar functions
    constindex,  \* TString.u.s.constindex of every interned string
    nlex,        \* tokens the lexer has delivered so far
    linenumber,  \* ls->linenumber: the line the lexer has reached
    lastline,    \* ls->lastline: the line of the last token consumed
    vocab,       \* the vocabulary of the source text being compiled
    status,      \* "run", "done", or the message of the error that unwound
    proto        \* <<the prototype luaY_parser returned>>, <<>> before

vars ==
    <<t, lookahead, fs, cs, constindex, nlex, linenumber, lastline, vocab, status, proto>>

(***************************************************************************)
(* Program constants.  The limits of llimits.h are compile-time            *)
(* configurable; the model fixes small values that keep their order        *)
(* (MAXPARAMS < MAXLOCALS) so that the limit cases are within reach.       *)
(***************************************************************************)
NO_JUMP == -1
MULT_RET == 255
MAX_INT == 2147483645
MAXLOCALS == 4
MAXUPVALUES == 2
MAXPARAMS == 1
MAXVARSLH == 100
MAXARG_A == 131071
MAXARG_U == 67108863
LFIELDS_PER_FLUSH == 2
RFIELDS_PER_FLUSH == 2
UNARY_PRIORITY == 7

(***************************************************************************)
(* Bounds of the model: the length of the source text in tokens, for each  *)
(* vocabulary the text may be written in.                                  *)
(***************************************************************************)
TokCapture == 8
TokRecapture == 13
TokNest == 9
TokForNest == 9
TokFuncNest == 10
TokLook == 7
TokPrio == 9
TokAdjust == 10
TokAssign == 10
TokList == 11
TokOuter == 9
TokLines == 5
TokUpvalues == 12
\* the lines of a text of the vocabulary "lines"; the other texts have one
MaxLine == 2
TokLocals == 10
TokBranch == 9
TokLoop == 7
TokFor == 8
TokTable == 6
TokExpr == 5
TokFunc == 8
\* nlex once the lexer has delivered the end of the stream
EndOfStream == 99

(***************************************************************************)
(* Tokens.  seminfo is the interned string of a NAME or STRING; the value  *)
(* of a NUMBER is not tracked.                                             *)
(***************************************************************************)
Tok(k, s) == [token |-> k, ts |-> s]
TK_EOS == Tok("TK_EOS", "")
Name(s) == Tok("TK_NAME", s)
Sym(k) == Tok(k, "")

(***************************************************************************)
(* The source texts: a text is any sequence of tokens of one vocabulary,   *)
(* at most as long as the vocabulary's bound.                              *)
(***************************************************************************)
Vocabulary ==
    [capture |-> {Name("x"), Name("y"), Sym("TK_FUNCTION"), Sym("("), Sym(")"), Sym("%"),
                  Sym("TK_RETURN"), Sym("TK_END")},
     recapture |-> {Name("x"), Name("y"), Sym("TK_FUNCTION"), Sym("("), Sym(")"),
                    Sym("%")},
     outer   |-> {Name("x"), Sym("TK_LOCAL"), Sym("TK_FUNCTION"), Sym("("), Sym(")"),
                  Sym("%")},
     locals  |-> {Name("x"), Sym("TK_LOCAL"), Sym(","), Sym("=")},
     branch  |-> {Name("x"), Sym("TK_IF"), Sym("TK_THEN"), Sym("TK_ELSEIF"), Sym("TK_ELSE"),
                  Sym("TK_END"), Sym("TK_RETURN"), Sym(";")},
     nest    |-> {Name("x"), Sym("TK_WHILE"), Sym("TK_DO"), Sym("TK_END"), Sym("TK_REPEAT"),
                  Sym("TK_UNTIL"), Sym("TK_BREAK")},
     fornest |-> {Name("x"), Sym("TK_FOR"), Sym("="), Sym(","), Sym("TK_DO"), Sym("TK_END"),
                  Sym("TK_BREAK")},
     funcnest |-> {Name("x"), Sym("TK_REPEAT"), Sym("TK_UNTIL"), Sym("TK_FUNCTION"), Sym("("),
                   Sym(")"), Sym("TK_BREAK"), Sym("TK_END")},
     look    |-> {Name("x"), Sym("="), Sym("{"), Sym("}"), Sym(";"), Sym("TK_FUNCTION"),
                  Sym("("), Sym(")"), Sym("TK_END")},
     prio    |-> {Name("x"), Sym("="), Sym("-"), Sym("TK_NOT"), Sym("+"), Sym("*"), Sym("^"),
                  Sym("TK_CONCAT"), Sym("TK_EQ"), Sym("TK_AND")},
     adjust  |-> {Name("x"), Sym("TK_LOCAL"), Sym(","), Sym("="), Sym("("), Sym(")")},
     assign  |-> {Name("x"), Name("y"), Sym("TK_LOCAL"), Sym("."), Sym(","), Sym("=")},
     list    |-> {Name("x"), Sym("{"), Sym("}"), Sym(",")},
     upvalues |-> {Name("x"), Name("y"), Name("z"), Sym("("), Sym(")"), Sym("%")},
     lines   |-> {Name("x"), Sym("TK_DO"), Sym("TK_END"), Sym("TK_WHILE"), Sym("TK_REPEAT"),
                  Sym("TK_UNTIL"), Sym("TK_FUNCTION"), Sym("("), Sym(")"), Sym("{"),
                  Sym("}")},
     loop    |-> {Name("x"), Sym("TK_WHILE"), Sym("TK_DO"), Sym("TK_END"), Sym("TK_REPEAT"),
                  Sym("TK_UNTIL"), Sym("TK_BREAK"), Sym(";")},
     for     |-> {Name("x"), Name("in"), Sym("TK_FOR"), Sym("="), Sym(","), Sym("TK_DO"),
                  Sym("TK_END"), Sym("TK_BREAK"), Sym("TK_LOCAL")},
     table   |-> {Name("x"), Sym("="), Sym("{"), Sym("}"), Sym("["), Sym("]"), Sym(";"),
                  Sym(","), Sym("TK_NUMBER")},
     expr    |-> {Name("x"), Sym("="), Sym("TK_NOT"), Sym("-"), Sym("TK_AND"), Sym("TK_OR"),
                  Sym("TK_EQ"), Sym("TK_CONCAT"), Sym("TK_NIL"), Tok("TK_STRING", "s"),
                  Sym("("), Sym(")")},
     func    |-> {Name("x"), Sym("TK_FUNCTION"), Sym("."), Sym(":"), Sym("("), Sym(")"),
                  Sym(","), Sym("TK_DOTS"), Sym("TK_END"), Sym("TK_RETURN")}]

\* the strings of the texts, as luaS_new creates them: constindex 0
NewStrings == [s \in {"x", "y", "z", "in", "s"} |-> 0]

TokenBound ==
    [nest |-> TokNest, fornest |-> TokForNest, funcnest |-> TokFuncNest, look |-> TokLook, prio |-> TokPrio, adjust |-> TokAdjust, assign |-> TokAssign, list |-> TokList, lines |-> TokLines, upvalues |-> TokUpvalues, capture |-> TokCapture, recapture |-> TokRecapture, outer |-> TokOuter, locals |-> TokLocals,
     branch |-> TokBranch, loop |-> TokLoop, for |-> TokFor, table |-> TokTable,
     expr |-> TokExpr, func |-> TokFunc]

(***************************************************************************)
(* expdesc                                                                 *)
(***************************************************************************)
ExpDesc(k, i, tl, fl) == [k |-> k, index |-> i, t |-> tl, f |-> fl]
VEXP == ExpDesc("VEXP", 0, NO_JUMP, NO_JUMP)
VoidExp == ExpDesc("VVOID", 0, NO_JUMP, NO_JUMP)

(***************************************************************************)
(* The emitter, on one FuncState f.  pc is the length of the code vector;  *)
(* the instruction at pc p is f.code[p+1].  A jump instruction's field a   *)
(* is NO_JUMP, the pc of the next jump of its list, or its target.         *)
(***************************************************************************)
Ins(o, a, b) == [op |-> o, a |-> a, b |-> b]
pc(f) == Len(f.code)

ISJUMP(o) ==
    o \in {"OP_JMPNE", "OP_JMPEQ", "OP_JMPLT", "OP_JMPLE", "OP_JMPGT", "OP_JMPGE",
           "OP_JMPT", "OP_JMPF", "OP_JMPONT", "OP_JMPONF", "OP_JMP"}

invertjump(o) ==
    CASE o = "OP_JMPNE" -> "OP_JMPEQ" [] o = "OP_JMPEQ" -> "OP_JMPNE"
      [] o = "OP_JMPLT" -> "OP_JMPGE" [] o = "OP_JMPGE" -> "OP_JMPLT"
      [] o = "OP_JMPLE" -> "OP_JMPGT" [] o = "OP_JMPGT" -> "OP_JMPLE"
      [] o = "OP_JMPT" -> "OP_JMPF"   [] o = "OP_JMPF" -> "OP_JMPT"
      [] o = "OP_JMPONT" -> "OP_JMPONF" [] o = "OP_JMPONF" -> "OP_JMPONT"
      [] OTHER -> o

luaK_deltastack(f, d) == [f EXCEPT !.stacklevel = @ + d]

\* the effect of one instruction on the symbolic operand stack
StackDelta(f, o, a1, a2) ==
    CASE o \in {"OP_PUSHINT", "OP_PUSHSTRING", "OP_PUSHNUM", "OP_PUSHUPVALUE",
                "OP_GETLOCAL", "OP_GETGLOBAL", "OP_PUSHSELF",
                "OP_CREATETABLE"} -> 1
      [] o = "OP_PUSHNIL" -> a1
      [] o = "OP_POP" -> -a1
      [] o \in {"OP_GETTABLE", "OP_SETLOCAL", "OP_SETGLOBAL", "OP_ADD",
                "OP_SUB", "OP_MULT", "OP_DIV", "OP_POW", "OP_JMPT", "OP_JMPF",
                "OP_JMPONT", "OP_JMPONF"} -> -1
      [] o \in {"OP_JMPNE", "OP_JMPEQ", "OP_JMPLT", "OP_JMPLE", "OP_JMPGT",
                "OP_JMPGE"} -> -2
      [] o = "OP_SETTABLE" -> -a2
      [] o \in {"OP_SETLIST"} -> (a2 + 1) - f.stacklevel
      [] o \in {"OP_SETMAP"} -> (a1 + 1) - f.stacklevel
      [] o = "OP_CONCAT" -> 1 - a1
      [] o = "OP_CLOSURE" -> 1 - a2
      [] o = "OP_FORLOOP" -> -3
      [] o = "OP_LFORPREP" -> 3
      [] o = "OP_LFORLOOP" -> -4
      [] OTHER -> 0

\* luaK_code2: append one instruction, adjust the stack.  A POP or PUSHNIL
\* of nothing emits nothing.  The line entries the emitter records are
\* counted in nlineinfo, apart from pc: one for each instruction.
luaK_code2(f, o, a1, a2) ==
    IF o \in {"OP_POP", "OP_PUSHNIL"} /\ a1 = 0 THEN f
    ELSE [luaK_deltastack(f, StackDelta(f, o, a1, a2)) EXCEPT
             !.code = Append(@, Ins(o, a1, a2)),
             !.lineinfo = Append(@, 0),
             !.nlineinfo = @ + 1]

luaK_code1(f, o, a1) == luaK_code2(f, o, a1, 0)
luaK_code0(f, o) == luaK_code2(f, o, 0, 0)

previous_instruction(f) ==
    IF pc(f) > f.lasttarget THEN f.code[pc(f)] ELSE Ins("OP_NONE", 0, 0)

luaK_lastisopen(f) ==
    LET i == previous_instruction(f) IN i.op = "OP_CALL" /\ i.b = MULT_RET

luaK_setcallreturns(f, nresults) ==
    IF luaK_lastisopen(f)
    THEN luaK_deltastack([f EXCEPT !.code[pc(f)].b = nresults], nresults)
    ELSE f

luaK_adjuststack(f, n) ==
    IF n > 0 THEN luaK_code1(f, "OP_POP", n) ELSE luaK_code1(f, "OP_PUSHNIL", -n)

luaK_getjump(f, p) == f.code[p + 1].a
luaK_fixjump(f, p, dest) == [f EXCEPT !.code[p + 1].a = dest]

RECURSIVE ListEnd(_, _)
ListEnd(f, l) ==
    IF luaK_getjump(f, l) = NO_JUMP THEN l ELSE ListEnd(f, luaK_getjump(f, l))

\* luaK_concat(fs, &l1, l2): the FuncState and the new value of l1
luaK_concat(f, l1, l2) ==
    IF l1 = NO_JUMP THEN [f |-> f, l |-> l2]
    ELSE [f |-> luaK_fixjump(f, ListEnd(f, l1), l2), l |-> l1]

RECURSIVE luaK_patchlistaux(_, _, _, _, _)
luaK_patchlistaux(f, list, target, special, special_target) ==
    IF list = NO_JUMP THEN f
    ELSE LET nxt == luaK_getjump(f, list)
             o == f.code[list + 1].op
             f1 == IF o = special THEN luaK_fixjump(f, list, special_target)
                   ELSE [luaK_fixjump(f, list, target) EXCEPT
                            !.code[list + 1].op =
                                IF o = "OP_JMPONT" THEN "OP_JMPT"
                                ELSE IF o = "OP_JMPONF" THEN "OP_JMPF" ELSE o]
         IN luaK_patchlistaux(f1, nxt, target, special, special_target)

luaK_patchlist(f, list, target) ==
    IF target = f.lasttarget
    THEN LET c == luaK_concat(f, f.jlt, list) IN [c.f EXCEPT !.jlt = c.l]
    ELSE luaK_patchlistaux(f, list, target, "OP_ADD", 0)

\* luaK_getlabel marks pc as a jump target; the label is pc(f)
luaK_getlabel(f) ==
    IF pc(f) # f.lasttarget
    THEN [luaK_patchlist([f EXCEPT !.lasttarget = pc(f)], f.jlt, f.lasttarget)
             EXCEPT !.jlt = NO_JUMP]
    ELSE f

\* luaK_jump: the FuncState and the list headed by the new jump.  The jumps
\* pending in jlt keep their target, the instruction the new jump becomes.
luaK_jump(f) == [f |-> luaK_code1(f, "OP_JMP", NO_JUMP), l |-> pc(f)]

luaK_fixfor(f, prep, dest) == luaK_fixjump(f, prep, dest)

\* discharge: load a variable; the FuncState, the descriptor, whether it did
discharge(f, v) ==
    CASE v.k = "VLOCAL" -> [f |-> luaK_code1(f, "OP_GETLOCAL", v.index), v |-> VEXP, d |-> TRUE]
      [] v.k = "VGLOBAL" -> [f |-> luaK_code1(f, "OP_GETGLOBAL", v.index), v |-> VEXP, d |-> TRUE]
      [] v.k = "VINDEXED" -> [f |-> luaK_code0(f, "OP_GETTABLE"), v |-> VEXP, d |-> TRUE]
      [] OTHER -> [f |-> f, v |-> v, d |-> FALSE]

discharge1_(r) ==
    [f |-> IF r.v.t = NO_JUMP /\ r.v.f = NO_JUMP THEN luaK_setcallreturns(r.f, 1) ELSE r.f,
     v |-> r.v]
discharge1(f, v) == discharge1_(discharge(f, v))

RECURSIVE need_value(_, _, _)
need_value(f, list, hasvalue) ==
    IF list = NO_JUMP THEN FALSE
    ELSE IF f.code[list + 1].op # hasvalue THEN TRUE
    ELSE need_value(f, luaK_getjump(f, list), hasvalue)

code_label(f, o, a) == luaK_code1(luaK_getlabel(f), o, a)

\* GET_OPCODE(fs->f->code[fs->pc-1])
PrevOp(f) == IF pc(f) = 0 THEN "OP_NONE" ELSE f.code[pc(f)].op

\* luaK_tostack, its last part: final = luaK_getlabel(fs); both lists are
\* patched, jumps that keep their value going to final
tostack_patch(f, vt, vf, p_nil, p_1) ==
    luaK_patchlistaux(luaK_patchlistaux(f, vf, p_nil, "OP_JMPONF", pc(f)),
                      vt, p_1, "OP_JMPONT", pc(f))

\* p_1 = code_label(fs, OP_PUSHINT, 1); luaK_patchlist(fs, j, luaK_getlabel(fs))
tostack_pushint(f, vt, vf, j, p_nil) ==
    tostack_patch(luaK_getlabel(luaK_patchlist(luaK_getlabel(code_label(f, "OP_PUSHINT", 1)),
                                               j, pc(f) + 1)),
                  vt, vf, p_nil, pc(f))

\* p_nil = code_label(fs, OP_PUSHNILJMP, 0)
tostack_pushnil(f, vt, vf, j) ==
    tostack_pushint(code_label(f, "OP_PUSHNILJMP", 0), vt, vf, j, pc(f))

tostack_concat(c, vf) == tostack_pushnil(c.f, c.l, vf, NO_JUMP)

\* the expression needs values: the two pushes, reached by the jumps of
\* the lists that carry no value
tostack_values(f, v, previous) ==
    IF ISJUMP(previous)
    THEN tostack_concat(luaK_concat(f, v.t, pc(f) - 1), v.f)
    ELSE tostack_pushnil(luaK_adjuststack(code_label(f, "OP_JMP", NO_JUMP), 1),
                         v.t, v.f, pc(f))

tostack_jumps(f, v, previous) ==
    IF ISJUMP(previous) \/ need_value(f, v.f, "OP_JMPONF")
                        \/ need_value(f, v.t, "OP_JMPONT")
    THEN tostack_values(f, v, previous)
    ELSE tostack_patch(luaK_getlabel(f), v.t, v.f, NO_JUMP, NO_JUMP)

tostack_exp(f, v, onlyone, previous) ==
    IF ~ISJUMP(previous) /\ v.f = NO_JUMP /\ v.t = NO_JUMP
    THEN [f |-> IF onlyone THEN luaK_setcallreturns(f, 1) ELSE f, v |-> v]
    ELSE [f |-> tostack_jumps(f, v, previous), v |-> VEXP]

tostack_(r, f, v, onlyone) ==
    IF r.d THEN [f |-> r.f, v |-> r.v] ELSE tostack_exp(f, v, onlyone, PrevOp(f))

\* luaK_tostack: put the value(s) of v on the stack; the FuncState and v
luaK_tostack(f, v, onlyone) == tostack_(discharge(f, v), f, v, onlyone)

luaK_storevar(f, v) ==
    CASE v.k = "VLOCAL" -> luaK_code1(f, "OP_SETLOCAL", v.index)
      [] v.k = "VGLOBAL" -> luaK_code1(f, "OP_SETGLOBAL", v.index)
      [] OTHER -> luaK_code2(f, "OP_SETTABLE", 3, 3)

\* luaK_testgo, its last part: the tested jump at prevpos joins exitlist,
\* golist is patched to here
testgo_lists(c, golist, invert) ==
    [f |-> luaK_patchlist(luaK_getlabel(c.f), golist, pc(c.f)),
     v |-> IF invert THEN ExpDesc("VEXP", 0, NO_JUMP, c.l)
           ELSE ExpDesc("VEXP", 0, c.l, NO_JUMP)]

testgo_(f, v, invert, jump, previous) ==
    IF ~ISJUMP(previous)
    THEN testgo_lists(luaK_concat(luaK_code1(f, jump, NO_JUMP),
                                  IF invert THEN v.f ELSE v.t, pc(f)),
                      IF invert THEN v.t ELSE v.f, invert)
    ELSE testgo_lists(luaK_concat(IF invert
                                  THEN [f EXCEPT !.code[pc(f)].op = invertjump(@)]
                                  ELSE f,
                                  IF invert THEN v.f ELSE v.t, pc(f) - 1),
                      IF invert THEN v.t ELSE v.f, invert)

testgo_discharged(d, invert, jump) == testgo_(d.f, d.v, invert, jump, PrevOp(d.f))

\* luaK_testgo: the FuncState and v
luaK_testgo(f, v, invert, jump) == testgo_discharged(discharge1(f, v), invert, jump)

luaK_goiftrue(f, v, keepvalue) ==
    luaK_testgo(f, v, TRUE, IF keepvalue THEN "OP_JMPONF" ELSE "OP_JMPF")
luaK_goiffalse(f, v, keepvalue) ==
    luaK_testgo(f, v, FALSE, IF keepvalue THEN "OP_JMPONT" ELSE "OP_JMPT")

prefix_minus(r) == [f |-> luaK_code0(r.f, "OP_MINUS"), v |-> r.v]

prefix_not(d) ==
    [f |-> IF ISJUMP(PrevOp(d.f)) THEN [d.f EXCEPT !.code[pc(d.f)].op = invertjump(@)]
           ELSE luaK_code0(d.f, "OP_NOT"),
     v |-> ExpDesc("VEXP", 0, d.v.f, d.v.t)]

luaK_prefix(f, uop, v) ==
    IF uop = "OPR_MINUS" THEN prefix_minus(luaK_tostack(f, v, TRUE))
    ELSE prefix_not(discharge1(f, v))

luaK_infix(f, op, v) ==
    CASE op = "OPR_AND" -> luaK_goiftrue(f, v, TRUE)
      [] op = "OPR_OR" -> luaK_goiffalse(f, v, TRUE)
      [] OTHER -> luaK_tostack(f, v, TRUE)

BinOpcode(op) ==
    CASE op = "OPR_ADD" -> "OP_ADD" [] op = "OPR_SUB" -> "OP_SUB"
      [] op = "OPR_MULT" -> "OP_MULT" [] op = "OPR_DIV" -> "OP_DIV"
      [] op = "OPR_POW" -> "OP_POW" [] op = "OPR_CONCAT" -> "OP_CONCAT"
      [] op = "OPR_NE" -> "OP_JMPNE" [] op = "OPR_EQ" -> "OP_JMPEQ"
      [] op = "OPR_LT" -> "OP_JMPLT" [] op = "OPR_LE" -> "OP_JMPLE"
      [] op = "OPR_GT" -> "OP_JMPGT" [] op = "OPR_GE" -> "OP_JMPGE"

posfix_and(d, v1) ==
    [f |-> luaK_concat(d.f, v1.f, d.v.f).f,
     v |-> ExpDesc("VEXP", 0, d.v.t, luaK_concat(d.f, v1.f, d.v.f).l)]

posfix_or(d, v1) ==
    [f |-> luaK_concat(d.f, v1.t, d.v.t).f,
     v |-> ExpDesc("VEXP", 0, luaK_concat(d.f, v1.t, d.v.t).l, d.v.f)]

posfix_op(r, op, v1) ==
    [f |-> luaK_code1(r.f, BinOpcode(op),
                      IF op = "OPR_CONCAT" THEN 2
                      ELSE IF ISJUMP(BinOpcode(op)) THEN NO_JUMP ELSE 0),
     v |-> v1]

luaK_posfix(f, op, v1, v2) ==
    CASE op = "OPR_AND" -> posfix_and(discharge1(f, v2), v1)
      [] op = "OPR_OR" -> posfix_or(discharge1(f, v2), v1)
      [] OTHER -> posfix_op(luaK_tostack(f, v2, TRUE), op, v1)


(***************************************************************************)
(* The machine state as one record m, so that a grammar function is an     *)
(* operator from m (and the token the lexer delivers, tk) to the next m.   *)
(* An error (luaK_error, a longjmp) is sticky: once status is not "run"    *)
(* the rest of the step is void and the whole state is dropped (Commit).   *)
(***************************************************************************)
M == [t |-> t, lookahead |-> lookahead, fs |-> fs, cs |-> cs,
      constindex |-> constindex, nlex |-> nlex, linenumber |-> linenumber,
      lastline |-> lastline,
      status |-> status, proto |-> proto]

CurFs(m) == m.fs[Len(m.fs)]
SetFs(m, f) == [m EXCEPT !.fs[Len(m.fs)] = f]
Top(m) == m.cs[Len(m.cs)]
SetTop(m, fr) == [m EXCEPT !.cs[Len(m.cs)] = fr]
Call(m, fr) == [m EXCEPT !.cs = Append(@, fr)]
\* return val to the caller: pop the frame, leave val in the caller's r
Return(m, val) ==
    LET n == Len(m.cs)
    IN [m EXCEPT !.cs = [i \in 1..(n - 1) |->
                            IF i = n - 1 THEN [m.cs[i] EXCEPT !.r = val]
                            ELSE m.cs[i]]]

luaK_error(m, msg) == IF m.status = "run" THEN [m EXCEPT !.status = msg] ELSE m

luaX_checklimit(m, val, limit, msg) ==
    IF val > limit THEN luaK_error(m, "too many " \o msg) ELSE m

\* luaX_lex: the lexer delivers tk; after the end of the stream it keeps
\* delivering TK_EOS.  nlex counts the calls: the tokens delivered, and from
\* EndOfStream on the ends of stream delivered
\* The lexer passes tk.nl ends of line before the token and counts them in
\* ls->linenumber.
luaX_lex(m, tk) ==
    [m EXCEPT !.nlex = IF tk.token = "TK_EOS" /\ @ < EndOfStream THEN EndOfStream ELSE @ + 1,
              !.linenumber = @ + tk.nl]

\* the token of a lexer result: ls->t or ls->lookahead after luaX_lex
Token(tk) == Tok(tk.token, tk.ts)

\* a variant of next that uses the look-ahead token and does not discharge it
next_undischarged(m, tk) ==
    IF m.lookahead.token # "TK_EOS"
    THEN [m EXCEPT !.lastline = m.linenumber, !.t = m.lookahead]
    ELSE [luaX_lex(m, tk) EXCEPT !.lastline = m.linenumber, !.t = Token(tk)]

\* ls->lastline = ls->linenumber, then the token
next(m, tk) ==
    IF m.lookahead.token # "TK_EOS"
    THEN [m EXCEPT !.lastline = m.linenumber, !.t = m.lookahead, !.lookahead = TK_EOS]
    ELSE [luaX_lex(m, tk) EXCEPT !.lastline = m.linenumber, !.t = Token(tk)]

lookahead_(m, tk) == [luaX_lex(m, tk) EXCEPT !.lookahead = Token(tk)]

\* luaX_token2str: a reserved word or a multi-character symbol is spelled
\* out, a single-character token is its character
luaX_token2str(token) ==
    CASE token = "TK_AND" -> "and"
      [] token = "TK_BREAK" -> "break"
      [] token = "TK_DO" -> "do"
      [] token = "TK_ELSE" -> "else"
      [] token = "TK_ELSEIF" -> "elseif"
      [] token = "TK_END" -> "end"
      [] token = "TK_FOR" -> "for"
      [] token = "TK_FUNCTION" -> "function"
      [] token = "TK_IF" -> "if"
      [] token = "TK_LOCAL" -> "local"
      [] token = "TK_NIL" -> "nil"
      [] token = "TK_NOT" -> "not"
      [] token = "TK_OR" -> "or"
      [] token = "TK_REPEAT" -> "repeat"
      [] token = "TK_RETURN" -> "return"
      [] token = "TK_THEN" -> "then"
      [] token = "TK_UNTIL" -> "until"
      [] token = "TK_WHILE" -> "while"
      [] token = "TK_CONCAT" -> ".."
      [] token = "TK_DOTS" -> "..."
      [] token = "TK_EQ" -> "=="
      [] token = "TK_GE" -> ">="
      [] token = "TK_LE" -> "<="
      [] token = "TK_NE" -> "~="
      [] token = "TK_EOS" -> "<eof>"
      [] OTHER -> token

\* sprintf of `%.10s' for the token texts that error_expected and
\* check_match are called with; none is longer than 10 characters
Quoted(s) ==
    CASE s = "do" -> "`do'"
      [] s = "end" -> "`end'"
      [] s = "then" -> "`then'"
      [] s = "until" -> "`until'"
      [] s = "while" -> "`while'"
      [] s = "repeat" -> "`repeat'"
      [] s = "for" -> "`for'"
      [] s = "if" -> "`if'"
      [] s = "function" -> "`function'"
      [] s = "=" -> "`='"
      [] s = "(" -> "`('"
      [] s = ")" -> "`)'"
      [] s = "{" -> "`{'"
      [] s = "}" -> "`}'"
      [] s = "]" -> "`]'"
      [] s = "," -> "`,'"

error_expected(m, token) == luaK_error(m, Quoted(luaX_token2str(token)) \o " expected")

check(m, c, tk) ==
    IF m.t.token # c THEN error_expected(m, c) ELSE next(m, tk)

check_condition(m, c, msg) == IF ~c THEN luaK_error(m, msg) ELSE m

optional(m, c, tk) == IF m.t.token = c THEN next(m, tk) ELSE m

\* `where' is the line of the opening token `who'
check_match(m, what, who, where, tk) ==
    IF m.t.token # what
    THEN IF where = m.linenumber
         THEN error_expected(m, what)
         ELSE luaK_error(m, Quoted(luaX_token2str(what)) \o " expected (to close "
                            \o Quoted(luaX_token2str(who)) \o " at line "
                            \o ToString(where) \o ")")
    ELSE next(m, tk)

\* string_constant on the FuncState at position fi of the chain: the
\* machine and the index c of s among that function's string constants
string_constant(m, fi, s) ==
    LET f == m.fs[fi]
        c == m.constindex[s]    \* s->u.s.constindex, the hint
    IN IF m.status # "run" THEN [m |-> m, c |-> 0]    \* an error has left the parser
       ELSE IF c >= Len(f.kstr) \/ f.kstr[c + 1] # s
       THEN [m |-> [m EXCEPT !.fs[fi].kstr = Append(@, s),
                             !.constindex[s] = Len(f.kstr)],
             c |-> Len(f.kstr)]
       ELSE [m |-> m, c |-> c]

luaK_kstr(f, c) == luaK_code1(f, "OP_PUSHSTRING", c)

code_string(m, s) ==
    LET k == string_constant(m, Len(m.fs), s)
    IN SetFs(k.m, luaK_kstr(CurFs(k.m), k.c))

\* str_checkname: the machine and the name read
str_checkname(m, tk) ==
    [m |-> next(check_condition(m, m.t.token = "TK_NAME", "<name> expected"), tk),
     ts |-> m.t.ts]

checkname(m, tk) ==
    LET n == str_checkname(m, tk) IN string_constant(n.m, Len(n.m.fs), n.ts)

\* a LocVar; startpc and endpc are unset (-1) until written, and the two
\* counters record how often each was written
luaI_registerlocalvar(f, varname) ==
    [f EXCEPT !.locvars = Append(@, [varname |-> varname, startpc |-> -1,
                                     endpc |-> -1, nstart |-> 0, nend |-> 0])]

\* actloc[i] = x for a C array of which f.actloc is the part written so far
PutActloc(a, i, x) ==
    IF i < Len(a) THEN [a EXCEPT ![i + 1] = x]
    ELSE a \o [j \in 1..(i - Len(a)) |-> -1] \o <<x>>

\* a variant of new_localvar that tests the slot index, not the count
new_localvar_index(m, name, n) ==
    LET f == CurFs(m)
        m1 == luaX_checklimit(m, f.nactloc + n, MAXLOCALS, "local variables")
        f1 == luaI_registerlocalvar(f, name)
    IN IF m1.status # "run" THEN m1
       ELSE SetFs(m1, [f1 EXCEPT !.actloc = PutActloc(@, f.nactloc + n, Len(f.locvars))])

\* the limit error leaves the function: nothing after it is executed
new_localvar(m, name, n) ==
    LET f == CurFs(m)
        m1 == luaX_checklimit(m, f.nactloc + n + 1, MAXLOCALS, "local variables")
        f1 == luaI_registerlocalvar(f, name)
    IN IF m1.status # "run" THEN m1
       ELSE SetFs(m1, [f1 EXCEPT !.actloc = PutActloc(@, f.nactloc + n, Len(f.locvars))])

RECURSIVE adjustlocalvars(_, _)
adjustlocalvars(f, nvars) ==
    IF nvars <= 0 THEN f
    ELSE adjustlocalvars(
           [f EXCEPT !.locvars[f.actloc[f.nactloc + 1] + 1].startpc = pc(f),
                     !.locvars[f.actloc[f.nactloc + 1] + 1].nstart = @ + 1,
                     !.nactloc = @ + 1],
           nvars - 1)

\* a variant of removelocalvars that forgets the variables without closing
\* their records
removelocalvars_unrecorded(f, nvars) == [f EXCEPT !.nactloc = @ - nvars]

RECURSIVE removelocalvars(_, _)
removelocalvars(f, nvars) ==
    IF nvars <= 0 THEN f
    ELSE removelocalvars(
           [f EXCEPT !.locvars[f.actloc[f.nactloc] + 1].endpc = pc(f),
                     !.locvars[f.actloc[f.nactloc] + 1].nend = @ + 1,
                     !.nactloc = @ - 1],
           nvars - 1)

\* the highest active slot of f that holds a local named n, or -1
RECURSIVE ActiveSlot(_, _, _)
ActiveSlot(f, n, i) ==
    IF i < 0 THEN -1
    ELSE IF f.locvars[f.actloc[i + 1] + 1].varname = n THEN i
    ELSE ActiveSlot(f, n, i - 1)

\* search_local: walk the chain from position fi outwards; the level at
\* which n was found (-1: nowhere) and the descriptor
RECURSIVE search_level(_, _, _, _)
search_level(m, n, fi, level) ==
    IF fi < 1 THEN [level |-> -1, v |-> ExpDesc("VGLOBAL", 0, NO_JUMP, NO_JUMP)]
    ELSE LET i == ActiveSlot(m.fs[fi], n, m.fs[fi].nactloc - 1)
         IN IF i >= 0 THEN [level |-> level, v |-> ExpDesc("VLOCAL", i, NO_JUMP, NO_JUMP)]
            ELSE search_level(m, n, fi - 1, level + 1)

search_local(m, n) == search_level(m, n, Len(m.fs), 0)

\* a variant of singlevar that takes a local of an outer function for a
\* global
singlevar_outer(m, n) ==
    LET s == search_local(m, n)
        k == string_constant(m, Len(m.fs), n)
    IN IF s.level # 0
       THEN [m |-> k.m, v |-> ExpDesc("VGLOBAL", k.c, NO_JUMP, NO_JUMP)]
       ELSE [m |-> m, v |-> s.v]

\* singlevar: the machine and the descriptor
singlevar(m, n) ==
    LET s == search_local(m, n)
    IN IF s.level >= 1
       THEN [m |-> luaK_error(m, "cannot access a variable in outer function"), v |-> s.v]
       ELSE IF s.level = -1
       THEN LET k == string_constant(m, Len(m.fs), n)
            IN [m |-> k.m, v |-> [s.v EXCEPT !.index = k.c]]
       ELSE [m |-> m, v |-> s.v]

\* the first i with upvalues[i] equal to v in kind and index, or -1
RECURSIVE FindUpvalue(_, _, _)
FindUpvalue(ups, v, i) ==
    IF i > Len(ups) THEN -1
    ELSE IF ups[i].k = v.k /\ ups[i].index = v.index THEN i - 1
    ELSE FindUpvalue(ups, v, i + 1)

\* a variant of indexupvalue that does not look v up
indexupvalue_append(m, v) ==
    LET f == CurFs(m)
        m1 == luaX_checklimit(m, Len(f.upvalues) + 1, MAXUPVALUES, "upvalues")
    IN IF m1.status # "run" THEN [m |-> m1, i |-> 0]
       ELSE [m |-> SetFs(m1, [f EXCEPT !.upvalues = Append(@, v)]),
             i |-> Len(f.upvalues)]

\* indexupvalue: the machine and the index of v among the upvalues
indexupvalue(m, v) ==
    LET f == CurFs(m)
        i == FindUpvalue(f.upvalues, v, 1)
        m1 == luaX_checklimit(m, Len(f.upvalues) + 1, MAXUPVALUES, "upvalues")
    IN IF i >= 0 THEN [m |-> m, i |-> i]
       ELSE IF m1.status # "run" THEN [m |-> m1, i |-> 0]
       ELSE [m |-> SetFs(m1, [f EXCEPT !.upvalues = Append(@, v)]),
             i |-> Len(f.upvalues)]

\* a variant of pushupvalue that takes a global named at top level from the
\* constants of the main function itself
pushupvalue_toplevel(m, n) ==
    LET s == search_local(m, n)
        k == string_constant(m, Len(m.fs), n)
        m1 == IF s.level = -1 THEN k.m
              ELSE IF s.level # 1
              THEN luaK_error(m, "upvalue must be global or local to immediately outer function")
              ELSE m
        v == IF s.level = -1 THEN [s.v EXCEPT !.index = k.c] ELSE s.v
        u == indexupvalue(m1, v)
    IN SetFs(u.m, luaK_code1(CurFs(u.m), "OP_PUSHUPVALUE", u.i))

pushupvalue(m, n) ==
    LET s == search_local(m, n)
        top == Len(m.fs) = 1
        m1 == IF s.level = -1
              THEN IF top THEN luaK_error(m, "cannot access an upvalue at top level")
                   ELSE string_constant(m, Len(m.fs) - 1, n).m
              ELSE IF s.level # 1
              THEN luaK_error(m, "upvalue must be global or local to immediately outer function")
              ELSE m
        v == IF s.level = -1 /\ ~top
             THEN [s.v EXCEPT !.index = string_constant(m, Len(m.fs) - 1, n).c]
             ELSE s.v
        u == indexupvalue(m1, v)
    IN SetFs(u.m, luaK_code1(CurFs(u.m), "OP_PUSHUPVALUE", u.i))

\* a variant of adjust_mult_assign that leaves an open call as it is
adjust_mult_assign_closed(f, nvars, nexps) == luaK_adjuststack(f, nexps - nvars)

\* a variant of adjust_mult_assign that counts the function call itself
adjust_mult_assign_counted(f, nvars, nexps) ==
    LET diff == nexps - nvars
    IN IF nexps > 0 /\ luaK_lastisopen(f)
       THEN IF diff <= 0
            THEN luaK_adjuststack(luaK_setcallreturns(f, -diff), 0)
            ELSE luaK_adjuststack(luaK_setcallreturns(f, 0), diff)
       ELSE luaK_adjuststack(f, diff)

adjust_mult_assign(f, nvars, nexps) ==
    LET diff == nexps - nvars
    IN IF nexps > 0 /\ luaK_lastisopen(f)
       THEN IF diff - 1 <= 0
            THEN luaK_adjuststack(luaK_setcallreturns(f, -(diff - 1)), 0)
            ELSE luaK_adjuststack(luaK_setcallreturns(f, 0), diff - 1)
       ELSE luaK_adjuststack(f, diff)

code_params(m, nparams, dots) ==
    LET f1 == adjustlocalvars(CurFs(m), nparams)
        m1 == luaX_checklimit(SetFs(m, f1), f1.nactloc, MAXPARAMS, "parameters")
        m2 == SetFs(m1, [f1 EXCEPT !.numparams = f1.nactloc, !.is_vararg = dots])
        m4 == new_localvar(m2, "arg", 0)
        m3 == IF ~dots THEN m2
              ELSE IF m4.status # "run" THEN m4
              ELSE SetFs(m4, adjustlocalvars(CurFs(m4), 1))
    IN IF m.status # "run" THEN m
       ELSE IF m1.status # "run" THEN m1
       ELSE SetFs(m3, luaK_deltastack(CurFs(m3), CurFs(m3).nactloc))

\* Breaklabels live in the C frames of the loops; f.bl is the chain
\* fs->bl, innermost last
\* f.loops and f.breaks are the history of the function's Breaklabels: the
\* exit label of each loop entered (-1 while it is open) and, for each jump
\* a break emitted, the loop whose label it was linked to
enterbreak(f) ==
    [f EXCEPT !.bl = Append(@, [breaklist |-> NO_JUMP, stacklevel |-> f.stacklevel,
                                id |-> Len(f.loops) + 1]),
              !.loops = Append(@, -1)]

\* a variant of leavebreak that drops the label without patching its list
leavebreak_unpatched(f, b) == [f EXCEPT !.bl = SubSeq(@, 1, b - 1)]

\* leavebreak of the label at position b of the chain
leavebreak(f, b) ==
    LET l == f.bl[b]
        f1 == [f EXCEPT !.bl = SubSeq(@, 1, b - 1), !.loops[l.id] = pc(f)]
    IN luaK_patchlist(luaK_getlabel(f1), l.breaklist, pc(f1))

NewFuncState ==
    [code |-> <<>>, lineinfo |-> <<>>, nlineinfo |-> 0, lastline |-> 0,
     lasttarget |-> 0, jlt |-> NO_JUMP,
     stacklevel |-> 0, kstr |-> <<>>, kproto |-> <<>>, locvars |-> <<>>,
     nactloc |-> 0, actloc |-> <<>>, upvalues |-> <<>>, bl |-> <<>>,
     numparams |-> 0, is_vararg |-> FALSE, loops |-> <<>>, breaks |-> <<>>,
     applied |-> <<>>]

open_func(m) == [m EXCEPT !.fs = Append(@, NewFuncState)]

\* the Proto of a closed FuncState: every vector at its actual size, the
\* line info at nlineinfo + 1 with the end flag in its last entry
ProtoOf(f) ==
    [code |-> f.code, sizecode |-> pc(f), kstr |-> f.kstr, kproto |-> f.kproto,
     locvars |-> f.locvars, sizelocvars |-> Len(f.locvars),
     lineinfo |-> Append(SubSeq(f.lineinfo, 1, f.nlineinfo), MAX_INT),
     sizelineinfo |-> f.nlineinfo + 1,
     nupvalues |-> Len(f.upvalues), numparams |-> f.numparams,
     is_vararg |-> f.is_vararg, bl |-> f.bl, loops |-> f.loops, breaks |-> f.breaks]

\* close_func: the closed FuncState (func); ls->fs is its parent again
close_func(m) ==
    LET f == CurFs(m)
        f1 == luaK_code1(f, "OP_RETURN", f.nactloc)
        f2 == luaK_getlabel(f1)
        f3 == removelocalvars(f2, f2.nactloc)
    IN [m |-> [m EXCEPT !.fs = SubSeq(@, 1, Len(@) - 1)], func |-> f3]

\* pushclosure of the closed FuncState func into the current function
RECURSIVE PushUpvalues(_, _, _)
PushUpvalues(f, ups, i) ==
    IF i > Len(ups) THEN f
    ELSE PushUpvalues(luaK_tostack(f, ups[i], TRUE).f, ups, i + 1)

pushclosure(m, func) ==
    LET f == PushUpvalues(CurFs(m), func.upvalues, 1)
        f1 == [f EXCEPT !.kproto = Append(@, ProtoOf(func))]
    IN SetFs(m, luaK_code2(f1, "OP_CLOSURE", Len(f1.kproto) - 1, Len(func.upvalues)))


(***************************************************************************)
(* The grammar functions.  A frame is [fn, at, r, locals...]: at is the    *)
(* resume point, r the value the last callee returned.  X_step(m, tk) runs *)
(* function X from its resume point to its next call or return; tk is the  *)
(* token the lexer delivers if the step reads one (each step reads at most *)
(* one).                                                                   *)
(***************************************************************************)
Frame(fn) == [fn |-> fn, at |-> 0, r |-> 0]
Goto(m, at) == [m EXCEPT !.cs[Len(m.cs)].at = at]

F_chunk == [fn |-> "chunk", at |-> 0, r |-> 0, islast |-> FALSE]
F_statement == [fn |-> "statement", at |-> 0, r |-> 0, islast |-> 0, line |-> 0]
F_block == [fn |-> "block", at |-> 0, r |-> 0, nactloc |-> 0]
F_subexpr(limit) ==
    [fn |-> "subexpr", at |-> 0, r |-> 0, limit |-> limit, v |-> VoidExp,
     uop |-> "OPR_NOUNOPR", op |-> "OPR_NOBINOPR", from |-> 0]
\* expr(ls, v) is subexpr(ls, v, -1)
F_expr == F_subexpr(-1)
F_explist1 == [fn |-> "explist1", at |-> 0, r |-> 0, n |-> 1]
F_simpleexp == [fn |-> "simpleexp", at |-> 0, r |-> 0, v |-> VoidExp]
F_funcargs(slf) ==
    [fn |-> "funcargs", at |-> 0, r |-> 0, slf |-> slf, slevel |-> 0, line |-> 0]
F_body(needself, line) ==
    [fn |-> "body", at |-> 0, r |-> 0, needself |-> needself, line |-> line]
F_assignment(v, nvars) ==
    [fn |-> "assignment", at |-> 0, r |-> 0, v |-> v, nvars |-> nvars]
F_forbody(nvar, prepfor, loopfor) ==
    [fn |-> "forbody", at |-> 0, r |-> 0, nvar |-> nvar, prepfor |-> prepfor,
     loopfor |-> loopfor, prep |-> 0, blockinit |-> 0]

\* apply an emitter operation that yields [f, v] to the current function
OnFs(m, r) == [m |-> SetFs(m, r.f), v |-> r.v]

block_follow(token) ==
    token \in {"TK_ELSE", "TK_ELSEIF", "TK_END", "TK_UNTIL", "TK_EOS"}

\* a variant of chunk whose loop does not test islast
chunk_step_continued(m, tk) ==
    LET fr == Top(m)
    IN IF fr.at = 1
       THEN SetTop(optional(m, ";", tk), [fr EXCEPT !.islast = (fr.r = 1), !.at = 2])
       ELSE IF ~block_follow(m.t.token)
       THEN Call(Goto(m, 1), F_statement)
       ELSE Return(m, 0)

chunk_step(m, tk) ==
    LET fr == Top(m)
    IN IF fr.at = 1
       THEN \* islast = statement(ls); optional(ls, ';'); the assertion is at 2
            SetTop(optional(m, ";", tk), [fr EXCEPT !.islast = (fr.r = 1), !.at = 2])
       ELSE IF ~fr.islast /\ ~block_follow(m.t.token)
       THEN Call(Goto(m, 1), F_statement)
       ELSE Return(m, 0)

block_step(m, tk) ==
    LET fr == Top(m)
        f == CurFs(m)
    IN IF fr.at = 0
       THEN Call(SetTop(m, [fr EXCEPT !.nactloc = f.nactloc, !.at = 1]), F_chunk)
       ELSE Return(SetFs(m, removelocalvars(
                                luaK_adjuststack(f, f.nactloc - fr.nactloc),
                                f.nactloc - fr.nactloc)), 0)

statement_step(m, tk) ==
    LET fr == Top(m)
        k == m.t.token
        \* call the statement's function; islast is what statement returns
        go(mm, callee, islast) ==
            Call(SetTop(mm, [fn |-> "statement", at |-> 1, r |-> 0, islast |-> islast,
                             line |-> m.linenumber]),
                 callee)
    IN CASE fr.at = 1 -> Return(m, fr.islast)
         [] fr.at = 2 -> Return(check_match(m, "TK_END", "TK_DO", fr.line, tk), 0)
         [] OTHER ->
            CASE k = "TK_IF" ->
                   go(m, [fn |-> "ifstat", at |-> 0, r |-> 0, escapelist |-> NO_JUMP,
                          line |-> m.linenumber], 0)
              [] k = "TK_WHILE" ->
                   go(m, [fn |-> "whilestat", at |-> 0, r |-> 0, while_init |-> 0,
                          bl |-> 0, v |-> VoidExp, line |-> m.linenumber], 0)
              [] k = "TK_DO" ->
                   Call(SetTop(next(m, tk), [fr EXCEPT !.line = m.linenumber, !.at = 2]),
                        F_block)
              [] k = "TK_FOR" ->
                   go(m, [fn |-> "forstat", at |-> 0, r |-> 0, bl |-> 0, line |-> m.linenumber], 0)
              [] k = "TK_REPEAT" ->
                   go(m, [fn |-> "repeatstat", at |-> 0, r |-> 0, repeat_init |-> 0,
                          bl |-> 0, line |-> m.linenumber], 0)
              [] k = "TK_FUNCTION" ->
                   LET m1 == lookahead_(m, tk)
                   IN IF m1.lookahead.token = "("
                      THEN go(m1, Frame("exprstat"), 0)
                      ELSE go(m1, [fn |-> "funcstat", at |-> 0, r |-> 0, v |-> VoidExp,
                                   line |-> m.linenumber], 0)
              [] k = "TK_LOCAL" ->
                   go(m, [fn |-> "localstat", at |-> 0, r |-> 0, nvars |-> 0], 0)
              [] k = "TK_RETURN" -> go(m, Frame("retstat"), 1)
              [] k = "TK_BREAK" -> go(m, Frame("breakstat"), 1)
              [] OTHER -> go(m, Frame("exprstat"), 0)

(***************************************************************************)
(* Expressions                                                             *)
(***************************************************************************)
getunopr(op) ==
    CASE op = "TK_NOT" -> "OPR_NOT" [] op = "-" -> "OPR_MINUS"
      [] OTHER -> "OPR_NOUNOPR"

getbinopr(op) ==
    CASE op = "+" -> "OPR_ADD" [] op = "-" -> "OPR_SUB"
      [] op = "*" -> "OPR_MULT" [] op = "/" -> "OPR_DIV"
      [] op = "^" -> "OPR_POW" [] op = "TK_CONCAT" -> "OPR_CONCAT"
      [] op = "TK_NE" -> "OPR_NE" [] op = "TK_EQ" -> "OPR_EQ"
      [] op = "<" -> "OPR_LT" [] op = "TK_LE" -> "OPR_LE"
      [] op = ">" -> "OPR_GT" [] op = "TK_GE" -> "OPR_GE"
      [] op = "TK_AND" -> "OPR_AND" [] op = "TK_OR" -> "OPR_OR"
      [] OTHER -> "OPR_NOBINOPR"

\* priority[op] as <<left, right>>
priority(op) ==
    CASE op \in {"OPR_ADD", "OPR_SUB"} -> <<5, 5>>
      [] op \in {"OPR_MULT", "OPR_DIV"} -> <<6, 6>>
      [] op = "OPR_POW" -> <<9, 8>>
      [] op = "OPR_CONCAT" -> <<4, 3>>
      [] op \in {"OPR_NE", "OPR_EQ", "OPR_LT", "OPR_LE", "OPR_GT", "OPR_GE"} -> <<2, 2>>
      [] op \in {"OPR_AND", "OPR_OR"} -> <<1, 1>>

primaryexp_step(m, tk) ==
    LET fr == Top(m)
        k == m.t.token
        f == CurFs(m)
    IN CASE fr.at = 1 -> Return(m, VEXP)          \* after constructor or body
         [] fr.at = 2 -> Return(check(m, ")", tk), fr.r.v)   \* after `(' expr
         [] fr.at = 3 ->                           \* after `%'
              LET n == str_checkname(m, tk)
              IN Return(pushupvalue(n.m, n.ts), VEXP)
         [] OTHER ->
            CASE k = "TK_NUMBER" ->
                   Return(SetFs(next(m, tk), luaK_code1(f, "OP_PUSHINT", 0)), VEXP)
              [] k = "TK_STRING" -> Return(next(code_string(m, m.t.ts), tk), VEXP)
              [] k = "TK_NIL" ->
                   Return(next(SetFs(m, luaK_adjuststack(f, -1)), tk), VEXP)
              [] k = "{" -> Call(Goto(m, 1), Frame("constructor"))
              [] k = "TK_FUNCTION" ->
                   \* next(ls); body(ls, 0, ls->linenumber): the line after next
                   Call(Goto(next(m, tk), 1), F_body(FALSE, next(m, tk).linenumber))
              [] k = "(" -> Call(Goto(next(m, tk), 2), F_expr)
              [] k = "TK_NAME" ->
                   LET n == str_checkname(m, tk)
                       s == singlevar(n.m, n.ts)
                   IN Return(s.m, s.v)
              [] k = "%" -> Goto(next(m, tk), 3)
              [] OTHER -> Return(luaK_error(m, "unexpected symbol"), VoidExp)

simpleexp_step(m, tk) ==
    LET fr == Top(m)
        k == m.t.token
        v == IF fr.at = 0 THEN fr.v ELSE IF fr.at = 1 THEN fr.r ELSE fr.v
    IN CASE fr.at = 0 -> Call(Goto(m, 1), Frame("primaryexp"))
         [] fr.at = 2 ->                           \* `.' NAME
              LET c == checkname(m, tk)
              IN SetTop(SetFs(c.m, luaK_kstr(CurFs(c.m), c.c)),
                        [fr EXCEPT !.v.k = "VINDEXED", !.at = 5])
         [] fr.at = 3 ->                           \* `[' exp1 `]'
              Goto(check(m, "]", tk), 5)
         [] fr.at = 4 ->                           \* `:' NAME funcargs
              LET c == checkname(m, tk)
              IN Call(Goto(SetFs(c.m, luaK_code1(CurFs(c.m), "OP_PUSHSELF", c.c)), 6),
                      F_funcargs(1))
         [] fr.at = 6 -> SetTop(m, [fr EXCEPT !.v = VEXP, !.at = 5])
         [] OTHER ->                               \* 1, 5: the loop
            CASE k = "." ->
                   LET s == OnFs(next(m, tk), luaK_tostack(CurFs(m), v, TRUE))
                   IN SetTop(s.m, [fr EXCEPT !.v = s.v, !.at = 2])
              [] k = "[" ->
                   LET s == OnFs(next(m, tk), luaK_tostack(CurFs(m), v, TRUE))
                   IN Call(SetTop(s.m, [fr EXCEPT !.v = [s.v EXCEPT !.k = "VINDEXED"],
                                                  !.at = 3]), Frame("exp1"))
              [] k = ":" ->
                   LET s == OnFs(next(m, tk), luaK_tostack(CurFs(m), v, TRUE))
                   IN SetTop(s.m, [fr EXCEPT !.v = s.v, !.at = 4])
              [] k \in {"(", "TK_STRING", "{"} ->
                   LET s == OnFs(m, luaK_tostack(CurFs(m), v, TRUE))
                   IN Call(SetTop(s.m, [fr EXCEPT !.v = s.v, !.at = 6]), F_funcargs(0))
              [] OTHER -> Return(m, v)

\* f.applied is the history of the function's expressions: the operands
\* read and the operators applied (luaK_prefix, luaK_posfix), in the order
\* subexpr reads and applies them
Applied(f, what) == [f EXCEPT !.applied = Append(@, what)]

\* a variant of subexpr that also takes the operators of priority limit
subexpr_step_inclusive(m, tk) ==
    LET fr == Top(m)
        \* expand while operators have priorities not lower than limit
        loop(mm, v, op) ==
            IF op # "OPR_NOBINOPR" /\ priority(op)[1] >= fr.limit
            THEN LET s == OnFs(next(mm, tk), luaK_infix(CurFs(mm), op, v))
                 IN Call(SetTop(s.m, [fr EXCEPT !.v = s.v, !.op = op, !.at = 3]),
                         F_subexpr(priority(op)[2]))
            ELSE Return(mm, [v |-> v, op |-> op])
    IN CASE fr.at = 0 ->
              LET uop == getunopr(m.t.token)
                  fr1 == [fr EXCEPT !.from = Len(CurFs(m).applied)]
              IN IF uop # "OPR_NOUNOPR"
                 THEN Call(SetTop(next(m, tk), [fr1 EXCEPT !.uop = uop, !.at = 1]),
                           F_subexpr(UNARY_PRIORITY))
                 ELSE Call(SetTop(m, [fr1 EXCEPT !.at = 2]), F_simpleexp)
         [] fr.at = 1 ->
              LET s == OnFs(m, luaK_prefix(Applied(CurFs(m), fr.uop), fr.uop, fr.r.v))
              IN loop(s.m, s.v, getbinopr(m.t.token))
         [] fr.at = 2 -> loop(SetFs(m, Applied(CurFs(m), "operand")), fr.r, getbinopr(m.t.token))
         [] OTHER ->
              LET s == OnFs(m, luaK_posfix(Applied(CurFs(m), fr.op), fr.op, fr.v, fr.r.v))
              IN loop(s.m, s.v, fr.r.op)

subexpr_step(m, tk) ==
    LET fr == Top(m)
        \* expand while operators have priorities higher than limit
        loop(mm, v, op) ==
            IF op # "OPR_NOBINOPR" /\ priority(op)[1] > fr.limit
            THEN LET s == OnFs(next(mm, tk), luaK_infix(CurFs(mm), op, v))
                 IN Call(SetTop(s.m, [fr EXCEPT !.v = s.v, !.op = op, !.at = 3]),
                         F_subexpr(priority(op)[2]))
            ELSE Return(mm, [v |-> v, op |-> op])
    IN CASE fr.at = 0 ->
              LET uop == getunopr(m.t.token)
                  fr1 == [fr EXCEPT !.from = Len(CurFs(m).applied)]
              IN IF uop # "OPR_NOUNOPR"
                 THEN Call(SetTop(next(m, tk), [fr1 EXCEPT !.uop = uop, !.at = 1]),
                           F_subexpr(UNARY_PRIORITY))
                 ELSE Call(SetTop(m, [fr1 EXCEPT !.at = 2]), F_simpleexp)
         [] fr.at = 1 ->
              LET s == OnFs(m, luaK_prefix(Applied(CurFs(m), fr.uop), fr.uop, fr.r.v))
              IN loop(s.m, s.v, getbinopr(m.t.token))
         [] fr.at = 2 -> loop(SetFs(m, Applied(CurFs(m), "operand")), fr.r, getbinopr(m.t.token))
         [] OTHER ->
              LET s == OnFs(m, luaK_posfix(Applied(CurFs(m), fr.op), fr.op, fr.v, fr.r.v))
              IN loop(s.m, s.v, fr.r.op)

exp1_step(m, tk) ==
    LET fr == Top(m)
    IN IF fr.at = 0 THEN Call(Goto(m, 1), F_expr)
       ELSE Return(OnFs(m, luaK_tostack(CurFs(m), fr.r.v, TRUE)).m, 0)

explist1_step(m, tk) ==
    LET fr == Top(m)
    IN IF fr.at = 0 THEN Call(Goto(m, 1), F_expr)
       ELSE IF m.t.token = ","
       THEN LET s == OnFs(next(m, tk), luaK_tostack(CurFs(m), fr.r.v, TRUE))
            IN Call(SetTop(s.m, [fr EXCEPT !.n = @ + 1]), F_expr)
       ELSE Return(OnFs(m, luaK_tostack(CurFs(m), fr.r.v, FALSE)).m, fr.n)

funcargs_step(m, tk) ==
    LET fr == Top(m)
        k == m.t.token
        f == CurFs(m)
        \* fs->stacklevel = slevel; luaK_code2(fs, OP_CALL, slevel, MULT_RET)
        finish(mm, slevel) ==
            Return(SetFs(mm, luaK_code2([CurFs(mm) EXCEPT !.stacklevel = slevel],
                                        "OP_CALL", slevel, MULT_RET)), 0)
        slevel0 == f.stacklevel - fr.slf - 1
    IN CASE fr.at = 1 -> finish(check_match(m, ")", "(", fr.line, tk), fr.slevel)
         [] fr.at = 2 -> finish(m, fr.slevel)
         [] OTHER ->
            CASE k = "(" ->
                   LET m1 == next(m, tk)
                       m2 == SetTop(m1, [fr EXCEPT !.slevel = slevel0, !.line = m.linenumber,
                                                   !.at = 1])
                   IN IF m1.t.token # ")" THEN Call(m2, F_explist1) ELSE m2
              [] k = "{" ->
                   Call(SetTop(m, [fr EXCEPT !.slevel = slevel0, !.at = 2]),
                        Frame("constructor"))
              [] k = "TK_STRING" -> finish(next(code_string(m, m.t.ts), tk), slevel0)
              [] OTHER -> Return(luaK_error(m, "function arguments expected"), 0)


(***************************************************************************)
(* Constructors                                                            *)
(***************************************************************************)
recfield_step(m, tk) ==
    LET fr == Top(m)
        k == m.t.token
    IN CASE fr.at = 1 -> Call(Goto(check(m, "=", tk), 3), Frame("exp1"))
         [] fr.at = 2 -> Goto(check(m, "]", tk), 1)
         [] fr.at = 3 -> Return(m, 0)
         [] OTHER ->
            CASE k = "TK_NAME" ->
                   LET c == checkname(m, tk)
                   IN Goto(SetFs(c.m, luaK_kstr(CurFs(c.m), c.c)), 1)
              [] k = "[" -> Call(Goto(next(m, tk), 2), Frame("exp1"))
              [] OTHER -> Return(luaK_error(m, "<name> or `[' expected"), 0)

recfields_step(m, tk) ==
    LET fr == Top(m)
        f == CurFs(m)
        finish(mm) == Return(SetFs(mm, luaK_code1(CurFs(mm), "OP_SETMAP", fr.t)), fr.n)
    IN IF fr.at = 0
       THEN Call(SetTop(m, [fr EXCEPT !.t = f.stacklevel - 1, !.n = 1, !.at = 1]),
                 Frame("recfield"))
       ELSE IF m.t.token = ","
       THEN LET m1 == next(m, tk)
            IN IF m1.t.token # ";" /\ m1.t.token # "}"
               THEN Call(SetTop(IF fr.n % RFIELDS_PER_FLUSH = 0
                                THEN SetFs(m1, luaK_code1(f, "OP_SETMAP", fr.t)) ELSE m1,
                                [fr EXCEPT !.n = @ + 1]),
                         Frame("recfield"))
               ELSE finish(m1)
       ELSE finish(m)

\* a variant of listfields whose last SETLIST numbers its batch as n / LFIELDS_PER_FLUSH
listfields_step_late(m, tk) ==
    LET fr == Top(m)
        f == CurFs(m)
        v == fr.r.v
        finish(mm) ==
            Return(SetFs(mm, luaK_code2(luaK_tostack(CurFs(mm), v, FALSE).f, "OP_SETLIST",
                                        fr.n \div LFIELDS_PER_FLUSH, fr.t)), fr.n)
    IN IF fr.at = 0
       THEN Call(SetTop(m, [fr EXCEPT !.t = f.stacklevel - 1, !.n = 1, !.at = 1]), F_expr)
       ELSE IF m.t.token = ","
       THEN LET m1 == next(m, tk)
            IN IF m1.t.token # ";" /\ m1.t.token # "}"
               THEN LET f1 == luaK_tostack(f, v, TRUE).f
                        m2 == luaX_checklimit(m1, fr.n \div LFIELDS_PER_FLUSH, MAXARG_A,
                                              "`item groups' in a list initializer")
                        f2 == IF fr.n % LFIELDS_PER_FLUSH = 0
                              THEN luaK_code2(f1, "OP_SETLIST",
                                              (fr.n - 1) \div LFIELDS_PER_FLUSH, fr.t)
                              ELSE f1
                    IN Call(SetTop(SetFs(m2, f2), [fr EXCEPT !.n = @ + 1]), F_expr)
               ELSE finish(m1)
       ELSE finish(m)

listfields_step(m, tk) ==
    LET fr == Top(m)
        f == CurFs(m)
        v == fr.r.v
        finish(mm) ==
            Return(SetFs(mm, luaK_code2(luaK_tostack(CurFs(mm), v, FALSE).f, "OP_SETLIST",
                                        (fr.n - 1) \div LFIELDS_PER_FLUSH, fr.t)), fr.n)
    IN IF fr.at = 0
       THEN Call(SetTop(m, [fr EXCEPT !.t = f.stacklevel - 1, !.n = 1, !.at = 1]), F_expr)
       ELSE IF m.t.token = ","
       THEN LET m1 == next(m, tk)
            IN IF m1.t.token # ";" /\ m1.t.token # "}"
               THEN LET f1 == luaK_tostack(f, v, TRUE).f
                        m2 == luaX_checklimit(m1, fr.n \div LFIELDS_PER_FLUSH, MAXARG_A,
                                              "`item groups' in a list initializer")
                        f2 == IF fr.n % LFIELDS_PER_FLUSH = 0
                              THEN luaK_code2(f1, "OP_SETLIST",
                                              (fr.n - 1) \div LFIELDS_PER_FLUSH, fr.t)
                              ELSE f1
                    IN Call(SetTop(SetFs(m2, f2), [fr EXCEPT !.n = @ + 1]), F_expr)
               ELSE finish(m1)
       ELSE finish(m)

constructor_part_step(m, tk) ==
    LET fr == Top(m)
        k == m.t.token
        rec(mm) == Call(SetTop(mm, [fr EXCEPT !.k = "1", !.at = 1]),
                        [fn |-> "recfields", at |-> 0, r |-> 0, t |-> 0, n |-> 1])
        list(mm) == Call(SetTop(mm, [fr EXCEPT !.k = "0", !.at = 1]),
                         [fn |-> "listfields", at |-> 0, r |-> 0, t |-> 0, n |-> 1])
    IN IF fr.at = 1 THEN Return(m, [n |-> fr.r, k |-> fr.k])
       ELSE CASE k \in {";", "}"} -> Return(m, [n |-> 0, k |-> k])
              [] k = "TK_NAME" ->
                   LET m1 == lookahead_(m, tk)
                   IN IF m1.lookahead.token # "=" THEN list(m1) ELSE rec(m1)
              [] k = "[" -> rec(m)
              [] OTHER -> list(m)

constructor_step(m, tk) ==
    LET fr == Top(m)
        f == CurFs(m)
        F_part == [fn |-> "constructor_part", at |-> 0, r |-> 0, k |-> ""]
        \* check_match; luaX_checklimit; SETARG_U(fs->f->code[pc], nelems)
        finish(mm, nelems) ==
            LET m1 == luaX_checklimit(check_match(mm, "}", "{", fr.line, tk), nelems, MAXARG_U,
                                      "elements in a table constructor")
            IN Return(SetFs(m1, [CurFs(m1) EXCEPT !.code[fr.pc + 1].a = nelems]), 0)
    IN CASE fr.at = 0 ->
              Call(SetTop(SetFs(check(m, "{", tk), luaK_code1(f, "OP_CREATETABLE", 0)),
                          [fn |-> "constructor", at |-> 1, r |-> 0, pc |-> pc(f),
                           cd |-> [n |-> 0, k |-> ""], line |-> m.linenumber]),
                   F_part)
         [] fr.at = 1 ->
              IF m.t.token = ";"
              THEN Call(SetTop(next(m, tk), [fr EXCEPT !.cd = fr.r, !.at = 2]), F_part)
              ELSE finish(m, fr.r.n)
         [] OTHER ->
              finish(check_condition(m, fr.cd.k # fr.r.k, "invalid constructor syntax"),
                     fr.cd.n + fr.r.n)

(***************************************************************************)
(* Statements                                                              *)
(***************************************************************************)
\* a variant of assignment that takes the table to be right below the values
assignment_step_tight(m, tk) ==
    LET fr == Top(m)
        f == CurFs(m)
        \* the store of this target, left values remaining above it
        store(mm, left) ==
            IF fr.v.k # "VINDEXED"
            THEN Return(SetFs(mm, luaK_storevar(CurFs(mm), fr.v)), left)
            ELSE Return(SetFs(mm, luaK_code2(CurFs(mm), "OP_SETTABLE",
                                             fr.nvars + 2, 1)), left + 2)
    IN CASE fr.at = 0 ->
              LET m0 == luaX_checklimit(m, fr.nvars, MAXVARSLH,
                                        "variables in a multiple assignment")
              IN IF m.t.token = ","
                 THEN Call(Goto(next(m0, tk), 1), F_simpleexp)
                 ELSE Call(Goto(check(m0, "=", tk), 3), F_explist1)
         [] fr.at = 1 ->
              Call(Goto(check_condition(m, fr.r.k # "VEXP", "syntax error"), 2),
                   F_assignment(fr.r, fr.nvars + 1))
         [] fr.at = 2 -> store(m, fr.r)
         [] OTHER -> store(SetFs(m, adjust_mult_assign(f, fr.nvars, fr.r)), 0)

assignment_step(m, tk) ==
    LET fr == Top(m)
        f == CurFs(m)
        \* the store of this target, left values remaining above it
        store(mm, left) ==
            IF fr.v.k # "VINDEXED"
            THEN Return(SetFs(mm, luaK_storevar(CurFs(mm), fr.v)), left)
            ELSE Return(SetFs(mm, luaK_code2(CurFs(mm), "OP_SETTABLE",
                                             left + fr.nvars + 2, 1)), left + 2)
    IN CASE fr.at = 0 ->
              LET m0 == luaX_checklimit(m, fr.nvars, MAXVARSLH,
                                        "variables in a multiple assignment")
              IN IF m.t.token = ","
                 THEN Call(Goto(next(m0, tk), 1), F_simpleexp)
                 ELSE Call(Goto(check(m0, "=", tk), 3), F_explist1)
         [] fr.at = 1 ->
              Call(Goto(check_condition(m, fr.r.k # "VEXP", "syntax error"), 2),
                   F_assignment(fr.r, fr.nvars + 1))
         [] fr.at = 2 -> store(m, fr.r)
         [] OTHER -> store(SetFs(m, adjust_mult_assign(f, fr.nvars, fr.r)), 0)

cond_step(m, tk) ==
    LET fr == Top(m)
    IN IF fr.at = 0 THEN Call(Goto(m, 1), F_expr)
       ELSE LET s == OnFs(m, luaK_goiftrue(CurFs(m), fr.r.v, FALSE))
            IN Return(s.m, s.v)

whilestat_step(m, tk) ==
    LET fr == Top(m)
        f == CurFs(m)
    IN CASE fr.at = 0 ->
              LET f1 == enterbreak(luaK_getlabel(f))
              IN Call(SetTop(SetFs(next(m, tk), f1),
                             [fr EXCEPT !.while_init = pc(f), !.bl = Len(f1.bl), !.at = 1]),
                      Frame("cond"))
         [] fr.at = 1 ->
              Call(SetTop(check(m, "TK_DO", tk), [fr EXCEPT !.v = fr.r, !.at = 2]), F_block)
         [] OTHER ->
              LET j == luaK_jump(f)
                  f1 == luaK_patchlist(j.f, j.l, fr.while_init)
                  f2 == luaK_patchlist(luaK_getlabel(f1), fr.v.f, pc(f1))
                  m1 == check_match(m, "TK_END", "TK_WHILE", fr.line, tk)
              IN Return(SetFs(m1, leavebreak(f2, fr.bl)), 0)

repeatstat_step(m, tk) ==
    LET fr == Top(m)
        f == CurFs(m)
    IN CASE fr.at = 0 ->
              LET f1 == enterbreak(luaK_getlabel(f))
              IN Call(SetTop(SetFs(next(m, tk), f1),
                             [fr EXCEPT !.repeat_init = pc(f), !.bl = Len(f1.bl), !.at = 1]),
                      F_block)
         [] fr.at = 1 ->
              Call(Goto(check_match(m, "TK_UNTIL", "TK_REPEAT", fr.line, tk), 2), Frame("cond"))
         [] OTHER ->
              Return(SetFs(m, leavebreak(luaK_patchlist(f, fr.r.f, fr.repeat_init), fr.bl)), 0)

forbody_step(m, tk) ==
    LET fr == Top(m)
        f == CurFs(m)
    IN IF fr.at = 0
       THEN LET f1 == luaK_getlabel(luaK_code1(f, fr.prepfor, NO_JUMP))
            IN Call(SetTop(SetFs(check(m, "TK_DO", tk), adjustlocalvars(f1, fr.nvar)),
                           [fr EXCEPT !.prep = pc(f), !.blockinit = pc(f1), !.at = 1]),
                    F_block)
       ELSE LET f1 == luaK_patchlist(luaK_code1(f, fr.loopfor, NO_JUMP), pc(f), fr.blockinit)
                f2 == luaK_fixfor(luaK_getlabel(f1), fr.prep, pc(f1))
            IN Return(SetFs(m, removelocalvars(f2, fr.nvar)), 0)

fornum_step(m, tk) ==
    LET fr == Top(m)
        \* the three control variables, then forbody
        body3(mm) ==
            Call(Goto(new_localvar(new_localvar(new_localvar(mm, fr.varname, 0),
                                                "(limit)", 1), "(step)", 2), 4),
                 F_forbody(3, "OP_FORPREP", "OP_FORLOOP"))
    IN CASE fr.at = 0 -> Call(Goto(check(m, "=", tk), 1), Frame("exp1"))
         [] fr.at = 1 -> Call(Goto(check(m, ",", tk), 2), Frame("exp1"))
         [] fr.at = 2 ->
              IF m.t.token = ","
              THEN Call(Goto(next(m, tk), 3), Frame("exp1"))
              ELSE body3(SetFs(m, luaK_code1(CurFs(m), "OP_PUSHINT", 1)))
         [] fr.at = 3 -> body3(m)
         [] OTHER -> Return(m, 0)

forlist_step(m, tk) ==
    LET fr == Top(m)
    IN CASE fr.at = 0 -> Goto(check(m, ",", tk), 1)
         [] fr.at = 1 ->
              LET n == str_checkname(m, tk)
              IN SetTop(n.m, [fr EXCEPT !.valname = n.ts, !.at = 2])
         [] fr.at = 2 ->
              Call(Goto(next(check_condition(m, m.t.token = "TK_NAME" /\ m.t.ts = "in",
                                             "`in' expected"), tk), 3), Frame("exp1"))
         [] fr.at = 3 ->
              Call(Goto(new_localvar(new_localvar(new_localvar(new_localvar(
                            m, "(table)", 0), "(index)", 1), fr.indexname, 2),
                            fr.valname, 3), 4),
                   F_forbody(4, "OP_LFORPREP", "OP_LFORLOOP"))
         [] OTHER -> Return(m, 0)

forstat_step(m, tk) ==
    LET fr == Top(m)
        f == CurFs(m)
    IN CASE fr.at = 0 ->
              LET f1 == enterbreak(f)
              IN SetTop(SetFs(next(m, tk), f1), [fr EXCEPT !.bl = Len(f1.bl), !.at = 1])
         [] fr.at = 1 ->
              LET n == str_checkname(m, tk)
                  k == n.m.t.token
              IN CASE k = "=" ->
                        Call(Goto(n.m, 2), [fn |-> "fornum", at |-> 0, r |-> 0,
                                            varname |-> n.ts])
                   [] k = "," ->
                        Call(Goto(n.m, 2), [fn |-> "forlist", at |-> 0, r |-> 0,
                                            indexname |-> n.ts, valname |-> ""])
                   [] OTHER -> luaK_error(n.m, "`=' or `,' expected")
         [] OTHER ->
              LET m1 == check_match(m, "TK_END", "TK_FOR", fr.line, tk)
              IN Return(SetFs(m1, leavebreak(f, fr.bl)), 0)

test_then_block_step(m, tk) ==
    LET fr == Top(m)
    IN CASE fr.at = 0 -> Call(Goto(next(m, tk), 1), Frame("cond"))
         [] fr.at = 1 ->
              Call(SetTop(check(m, "TK_THEN", tk), [fr EXCEPT !.v = fr.r, !.at = 2]), F_block)
         [] OTHER -> Return(m, fr.v)

ifstat_step(m, tk) ==
    LET fr == Top(m)
        f == CurFs(m)
        F_ttb == [fn |-> "test_then_block", at |-> 0, r |-> 0, v |-> VoidExp]
        \* luaK_concat(fs, &escapelist, luaK_jump(fs));
        \* luaK_patchlist(fs, v.u.l.f, luaK_getlabel(fs))
        j == luaK_jump(f)
        c == luaK_concat(j.f, fr.escapelist, j.l)
        f1 == luaK_patchlist(luaK_getlabel(c.f), fr.r.f, pc(c.f))
        \* luaK_patchlist(fs, escapelist, luaK_getlabel(fs)); check_match
        finish(mm, ff, escapelist) ==
            Return(SetFs(check_match(mm, "TK_END", "TK_IF", fr.line, tk),
                         luaK_patchlist(luaK_getlabel(ff), escapelist, pc(ff))), 0)
    IN CASE fr.at = 0 -> Call(Goto(m, 1), F_ttb)
         [] fr.at = 1 ->
              CASE m.t.token = "TK_ELSEIF" ->
                     Call(SetTop(SetFs(m, f1), [fr EXCEPT !.escapelist = c.l]), F_ttb)
                [] m.t.token = "TK_ELSE" ->
                     Call(SetTop(SetFs(next(m, tk), f1),
                                 [fr EXCEPT !.escapelist = c.l, !.at = 2]), F_block)
                [] OTHER ->
                     LET c2 == luaK_concat(f, fr.escapelist, fr.r.f)
                     IN finish(m, c2.f, c2.l)
         [] OTHER -> finish(m, f, fr.escapelist)

\* a variant of localstat that activates each name as it is declared
localstat_step_eager(m, tk) ==
    LET fr == Top(m)
        finish(mm, nvars, nexps) ==
            Return(SetFs(mm, adjust_mult_assign(CurFs(mm), nvars, nexps)), 0)
    IN CASE fr.at = 0 -> Goto(next(m, tk), 1)
         [] fr.at = 1 ->
              LET n == str_checkname(m, tk)
                  m1 == new_localvar(n.m, n.ts, 0)
                  m2 == SetFs(m1, adjustlocalvars(CurFs(m1), 1))
              IN IF m1.status # "run" THEN m1
                 ELSE IF m2.t.token \in {",", "="}
                 THEN SetTop(m2, [fr EXCEPT !.nvars = @ + 1, !.at = 2])
                 ELSE finish(m2, fr.nvars + 1, 0)
         [] fr.at = 2 ->
              IF m.t.token = "," THEN Goto(next(m, tk), 1)
              ELSE Call(Goto(next(m, tk), 3), F_explist1)
         [] OTHER -> finish(m, fr.nvars, fr.r)

localstat_step(m, tk) ==
    LET fr == Top(m)
        \* adjust_mult_assign(ls, nvars, nexps); adjustlocalvars(ls, nvars)
        finish(mm, nvars, nexps) ==
            Return(SetFs(mm, adjustlocalvars(
                                 adjust_mult_assign(CurFs(mm), nvars, nexps), nvars)), 0)
    IN CASE fr.at = 0 -> Goto(next(m, tk), 1)
         [] fr.at = 1 ->
              LET n == str_checkname(m, tk)
                  m1 == new_localvar(n.m, n.ts, fr.nvars)
              IN IF m1.status # "run" THEN m1
                 ELSE IF m1.t.token \in {",", "="}
                 THEN SetTop(m1, [fr EXCEPT !.nvars = @ + 1, !.at = 2])
                 ELSE finish(m1, fr.nvars + 1, 0)
         [] fr.at = 2 ->
              IF m.t.token = "," THEN Goto(next(m, tk), 1)
              ELSE Call(Goto(next(m, tk), 3), F_explist1)
         [] OTHER -> finish(m, fr.nvars, fr.r)

funcname_step(m, tk) ==
    LET fr == Top(m)
        f == CurFs(m)
    IN CASE fr.at = 0 ->
              LET n == str_checkname(m, tk)
                  s == singlevar(n.m, n.ts)
              IN SetTop(s.m, [fr EXCEPT !.v = s.v, !.at = 1])
         [] fr.at = 1 ->
              IF m.t.token \in {".", ":"}
              THEN LET s == OnFs(next(m, tk), luaK_tostack(f, fr.v, TRUE))
                   IN SetTop(s.m, [fr EXCEPT !.v = s.v,
                                             !.at = IF m.t.token = "." THEN 2 ELSE 3])
              ELSE Return(m, [v |-> fr.v, needself |-> FALSE])
         [] OTHER ->
              LET c == checkname(m, tk)
                  m1 == SetFs(c.m, luaK_kstr(CurFs(c.m), c.c))
                  v == [fr.v EXCEPT !.k = "VINDEXED"]
              IN IF fr.at = 2 THEN SetTop(m1, [fr EXCEPT !.v = v, !.at = 1])
                 ELSE Return(m1, [v |-> v, needself |-> TRUE])

funcstat_step(m, tk) ==
    LET fr == Top(m)
    IN CASE fr.at = 0 ->
              Call(Goto(next(m, tk), 1), [fn |-> "funcname", at |-> 0, r |-> 0, v |-> VoidExp])
         [] fr.at = 1 ->
              Call(SetTop(m, [fr EXCEPT !.v = fr.r.v, !.at = 2]), F_body(fr.r.needself, fr.line))
         [] OTHER -> Return(SetFs(m, luaK_storevar(CurFs(m), fr.v)), 0)

exprstat_step(m, tk) ==
    LET fr == Top(m)
        f == CurFs(m)
    IN CASE fr.at = 0 -> Call(Goto(m, 1), F_simpleexp)
         [] fr.at = 1 ->
              IF fr.r.k = "VEXP"
              THEN Return(SetFs(check_condition(m, luaK_lastisopen(f), "syntax error"),
                                luaK_setcallreturns(f, 0)), 0)
              ELSE Call(Goto(m, 2), F_assignment(fr.r, 1))
         [] OTHER -> Return(SetFs(m, luaK_adjuststack(f, fr.r)), 0)

retstat_step(m, tk) ==
    LET fr == Top(m)
        \* luaK_code1(fs, OP_RETURN, nactloc); fs->stacklevel = fs->nactloc
        finish(mm) ==
            LET f == CurFs(mm)
            IN Return(SetFs(mm, [luaK_code1(f, "OP_RETURN", f.nactloc) EXCEPT
                                    !.stacklevel = f.nactloc]), 0)
    IN IF fr.at = 0
       THEN LET m1 == next(m, tk)
            IN IF ~block_follow(m1.t.token) /\ m1.t.token # ";"
               THEN Call(Goto(m1, 1), F_explist1)
               ELSE finish(m1)
       ELSE finish(m)

\* a variant of breakstat that links the jump into the list of the outermost
\* open loop
breakstat_step_outermost(m, tk) ==
    LET f == CurFs(m)
    IN IF Len(f.bl) = 0 THEN Return(luaK_error(m, "no loop to break"), 0)
       ELSE LET bl == f.bl[1]
                currentlevel == f.stacklevel
                f1 == luaK_adjuststack(f, currentlevel - bl.stacklevel)
                j == luaK_jump(f1)
                c == luaK_concat(j.f, bl.breaklist, j.l)
                f2 == [c.f EXCEPT !.bl[1].breaklist = c.l,
                                  !.breaks = Append(@, [pc |-> j.l,
                                                        loop |-> f.bl[Len(f.bl)].id])]
            IN Return(SetFs(next(m, tk),
                            luaK_adjuststack(f2, bl.stacklevel - currentlevel)), 0)

breakstat_step(m, tk) ==
    LET f == CurFs(m)
    IN IF Len(f.bl) = 0 THEN Return(luaK_error(m, "no loop to break"), 0)
       ELSE LET bl == f.bl[Len(f.bl)]
                currentlevel == f.stacklevel
                f1 == luaK_adjuststack(f, currentlevel - bl.stacklevel)
                j == luaK_jump(f1)
                c == luaK_concat(j.f, bl.breaklist, j.l)
                f2 == [c.f EXCEPT !.bl[Len(f.bl)].breaklist = c.l,
                                  !.breaks = Append(@, [pc |-> j.l, loop |-> bl.id])]
            IN Return(SetFs(next(m, tk),
                            luaK_adjuststack(f2, bl.stacklevel - currentlevel)), 0)

parlist_step(m, tk) ==
    LET fr == Top(m)
        k == m.t.token
    IN CASE fr.at = 2 -> Goto(next(m, tk), 1)     \* optional(ls, ',') took the comma
         [] fr.at = 0 /\ k = ")" -> Return(code_params(m, 0, FALSE), 0)
         [] OTHER ->
            CASE k = "TK_DOTS" -> Return(code_params(next(m, tk), fr.nparams, TRUE), 0)
              [] k = "TK_NAME" ->
                   LET n == str_checkname(m, tk)
                       m1 == new_localvar(n.m, n.ts, fr.nparams)
                   IN IF m1.t.token = ","
                      THEN SetTop(m1, [fr EXCEPT !.nparams = @ + 1, !.at = 2])
                      ELSE Return(code_params(m1, fr.nparams + 1, FALSE), 0)
              [] OTHER -> Return(luaK_error(m, "<name> or `...' expected"), 0)

body_step(m, tk) ==
    LET fr == Top(m)
    IN CASE fr.at = 0 ->
              LET m1 == check(open_func(m), "(", tk)
                  m3 == new_localvar(m1, "self", 0)
                  m2 == IF ~fr.needself THEN m1
                        ELSE IF m3.status # "run" THEN m3
                        ELSE SetFs(m3, adjustlocalvars(CurFs(m3), 1))
              IN Call(Goto(m2, 1), [fn |-> "parlist", at |-> 0, r |-> 0, nparams |-> 0])
         [] fr.at = 1 -> Call(Goto(check(m, ")", tk), 2), F_chunk)
         [] OTHER ->
              LET c == close_func(check_match(m, "TK_END", "TK_FUNCTION", fr.line, tk))
              IN Return(pushclosure(c.m, c.func), 0)

luaY_parser_step(m, tk) ==
    LET fr == Top(m)
    IN IF fr.at = 0 THEN Call(Goto(next(m, tk), 1), F_chunk)
       ELSE LET m1 == check_condition(m, m.t.token = "TK_EOS", "<eof> expected")
                c == close_func(m1)
            IN \* the error leaves luaY_parser before close_func: no Proto
               IF m1.status # "run" THEN m1
               ELSE [c.m EXCEPT !.cs = <<>>, !.proto = <<ProtoOf(c.func)>>,
                                !.status = "done"]

(***************************************************************************)
(* The machine.  Each action runs the function on top of the C stack from  *)
(* its resume point to its next call or return, taking from the lexer the  *)
(* token tk if it reads one.                                               *)
(***************************************************************************)
\* the tokens every text of a vocabulary starts with: the texts of
\* "upvalues" and "recapture" are function statements
Opening ==
    [v \in DOMAIN Vocabulary |->
        CASE v = "upvalues" -> <<Sym("TK_FUNCTION"), Name("x"), Sym("(")>>
          [] v = "recapture" -> <<Sym("TK_FUNCTION"), Name("x"), Sym("("), Sym(")")>>
          [] OTHER -> <<>>]

LineBound == [v \in DOMAIN Vocabulary |-> IF v = "lines" THEN MaxLine ELSE 1]

\* what the lexer can deliver: a token of the vocabulary or the end of the
\* stream, on the line reached or on the next one
LexSet ==
    LET tokens == IF nlex >= TokenBound[vocab] THEN {TK_EOS}
                  ELSE IF nlex < Len(Opening[vocab]) THEN {Opening[vocab][nlex + 1]}
                  ELSE Vocabulary[vocab] \cup {TK_EOS}
        ends == IF linenumber < LineBound[vocab] THEN {0, 1} ELSE {0}
    IN {[token |-> k.token, ts |-> k.ts, nl |-> n] : k \in tokens, n \in ends}

Running(fn) == status = "run" /\ cs # <<>> /\ cs[Len(cs)].fn = fn

\* an error unwinds every C frame and discards the compilation
Commit(m) ==
    LET e == m.status \notin {"run", "done"}
    IN /\ t' = IF e THEN TK_EOS ELSE m.t
       /\ lookahead' = IF e THEN TK_EOS ELSE m.lookahead
       /\ fs' = IF e THEN <<>> ELSE m.fs
       /\ cs' = IF e THEN <<>> ELSE m.cs
       /\ constindex' = IF e THEN NewStrings ELSE m.constindex
       /\ nlex' = IF e THEN EndOfStream ELSE m.nlex
       /\ linenumber' = IF e THEN 1 ELSE m.linenumber
       /\ lastline' = IF e THEN 1 ELSE m.lastline
       /\ status' = m.status
       /\ proto' = m.proto
       /\ vocab' = vocab

luaY_parser == Running("luaY_parser") /\ \E tk \in LexSet : Commit(luaY_parser_step(M, tk))
chunk == Running("chunk") /\ \E tk \in LexSet : Commit(chunk_step(M, tk))
block == Running("block") /\ \E tk \in LexSet : Commit(block_step(M, tk))
statement == Running("statement") /\ \E tk \in LexSet : Commit(statement_step(M, tk))
primaryexp == Running("primaryexp") /\ \E tk \in LexSet : Commit(primaryexp_step(M, tk))
simpleexp == Running("simpleexp") /\ \E tk \in LexSet : Commit(simpleexp_step(M, tk))
subexpr == Running("subexpr") /\ \E tk \in LexSet : Commit(subexpr_step(M, tk))
exp1 == Running("exp1") /\ \E tk \in LexSet : Commit(exp1_step(M, tk))
explist1 == Running("explist1") /\ \E tk \in LexSet : Commit(explist1_step(M, tk))
funcargs == Running("funcargs") /\ \E tk \in LexSet : Commit(funcargs_step(M, tk))
recfield == Running("recfield") /\ \E tk \in LexSet : Commit(recfield_step(M, tk))
recfields == Running("recfields") /\ \E tk \in LexSet : Commit(recfields_step(M, tk))
listfields == Running("listfields") /\ \E tk \in LexSet : Commit(listfields_step(M, tk))
constructor_part ==
    Running("constructor_part") /\ \E tk \in LexSet : Commit(constructor_part_step(M, tk))
constructor == Running("constructor") /\ \E tk \in LexSet : Commit(constructor_step(M, tk))
assignment == Running("assignment") /\ \E tk \in LexSet : Commit(assignment_step(M, tk))
cond == Running("cond") /\ \E tk \in LexSet : Commit(cond_step(M, tk))
whilestat == Running("whilestat") /\ \E tk \in LexSet : Commit(whilestat_step(M, tk))
repeatstat == Running("repeatstat") /\ \E tk \in LexSet : Commit(repeatstat_step(M, tk))
forbody == Running("forbody") /\ \E tk \in LexSet : Commit(forbody_step(M, tk))
fornum == Running("fornum") /\ \E tk \in LexSet : Commit(fornum_step(M, tk))
forlist == Running("forlist") /\ \E tk \in LexSet : Commit(forlist_step(M, tk))
forstat == Running("forstat") /\ \E tk \in LexSet : Commit(forstat_step(M, tk))
test_then_block ==
    Running("test_then_block") /\ \E tk \in LexSet : Commit(test_then_block_step(M, tk))
ifstat == Running("ifstat") /\ \E tk \in LexSet : Commit(ifstat_step(M, tk))
localstat == Running("localstat") /\ \E tk \in LexSet : Commit(localstat_step(M, tk))
funcname == Running("funcname") /\ \E tk \in LexSet : Commit(funcname_step(M, tk))
funcstat == Running("funcstat") /\ \E tk \in LexSet : Commit(funcstat_step(M, tk))
exprstat == Running("exprstat") /\ \E tk \in LexSet : Commit(exprstat_step(M, tk))
retstat == Running("retstat") /\ \E tk \in LexSet : Commit(retstat_step(M, tk))
breakstat == Running("breakstat") /\ \E tk \in LexSet : Commit(breakstat_step(M, tk))
parlist == Running("parlist") /\ \E tk \in LexSet : Commit(parlist_step(M, tk))
body == Running("body") /\ \E tk \in LexSet : Commit(body_step(M, tk))

\* luaY_parser has opened the main function and is about to read the
\* first token
Init ==
    /\ vocab \in DOMAIN Vocabulary \ {"recapture", "nest", "fornest", "funcnest", "look", "prio", "adjust", "assign", "list"}
    /\ t = TK_EOS
    /\ lookahead = TK_EOS
    /\ fs = <<NewFuncState>>
    /\ cs = <<Frame("luaY_parser")>>
    /\ constindex = NewStrings
    /\ nlex = 0
    /\ linenumber = 1
    /\ lastline = 1
    /\ status = "run"
    /\ proto = <<>>

Next ==
    \/ luaY_parser \/ chunk \/ block \/ statement
    \/ primaryexp \/ simpleexp \/ subexpr \/ exp1 \/ explist1 \/ funcargs
    \/ recfield \/ recfields \/ listfields \/ constructor_part \/ constructor
    \/ assignment \/ cond \/ whilestat \/ repeatstat
    \/ forbody \/ fornum \/ forlist \/ forstat
    \/ test_then_block \/ ifstat \/ localstat
    \/ funcname \/ funcstat \/ exprstat \/ retstat \/ breakstat
    \/ parlist \/ body

Spec == Init /\ [][Next]_vars

\* the texts of the vocabulary "recapture", and the functions they reach
InitCapture ==
    /\ vocab = "recapture"
    /\ t = TK_EOS
    /\ lookahead = TK_EOS
    /\ fs = <<NewFuncState>>
    /\ cs = <<Frame("luaY_parser")>>
    /\ constindex = NewStrings
    /\ nlex = 0
    /\ linenumber = 1
    /\ lastline = 1
    /\ status = "run"
    /\ proto = <<>>

NextCapture ==
    \/ luaY_parser \/ chunk \/ statement \/ exprstat \/ funcstat \/ funcname
    \/ body \/ parlist \/ simpleexp \/ primaryexp \/ funcargs \/ explist1
    \/ subexpr \/ assignment

SpecCapture == InitCapture /\ [][NextCapture]_vars

\* the texts of the vocabularies "nest" and "fornest": loops in loops, and
\* the functions they reach
InitNest ==
    /\ vocab \in {"nest", "fornest", "funcnest"}
    /\ t = TK_EOS
    /\ lookahead = TK_EOS
    /\ fs = <<NewFuncState>>
    /\ cs = <<Frame("luaY_parser")>>
    /\ constindex = NewStrings
    /\ nlex = 0
    /\ linenumber = 1
    /\ lastline = 1
    /\ status = "run"
    /\ proto = <<>>

NextNest ==
    \/ luaY_parser \/ chunk \/ block \/ statement \/ exprstat \/ assignment
    \/ simpleexp \/ primaryexp \/ subexpr \/ exp1 \/ explist1 \/ cond
    \/ whilestat \/ repeatstat \/ breakstat
    \/ forstat \/ fornum \/ forlist \/ forbody
    \/ funcstat \/ funcname \/ body \/ parlist \/ funcargs

SpecNest == InitNest /\ [][NextNest]_vars

\* the texts of the vocabulary "look": table constructors and functions,
\* where the parser looks ahead, and the functions they reach
InitLook ==
    /\ vocab = "look"
    /\ t = TK_EOS
    /\ lookahead = TK_EOS
    /\ fs = <<NewFuncState>>
    /\ cs = <<Frame("luaY_parser")>>
    /\ constindex = NewStrings
    /\ nlex = 0
    /\ linenumber = 1
    /\ lastline = 1
    /\ status = "run"
    /\ proto = <<>>

NextLook ==
    \/ luaY_parser \/ chunk \/ statement \/ exprstat \/ assignment
    \/ simpleexp \/ primaryexp \/ subexpr \/ exp1 \/ explist1 \/ funcargs
    \/ constructor \/ constructor_part \/ recfield \/ recfields \/ listfields
    \/ funcstat \/ funcname \/ body \/ parlist

SpecLook == InitLook /\ [][NextLook]_vars

\* the texts of the vocabulary "prio": assignments of expressions of unary
\* and binary operators, and the functions they reach
InitPrio ==
    /\ vocab = "prio"
    /\ t = TK_EOS
    /\ lookahead = TK_EOS
    /\ fs = <<NewFuncState>>
    /\ cs = <<Frame("luaY_parser")>>
    /\ constindex = NewStrings
    /\ nlex = 0
    /\ linenumber = 1
    /\ lastline = 1
    /\ status = "run"
    /\ proto = <<>>

NextPrio ==
    \/ luaY_parser \/ chunk \/ statement \/ exprstat \/ assignment
    \/ simpleexp \/ primaryexp \/ subexpr \/ explist1

SpecPrio == InitPrio /\ [][NextPrio]_vars

\* the texts of the vocabulary "adjust": local declarations and assignments
\* of lists of names and calls, and the functions they reach
InitAdjust ==
    /\ vocab = "adjust"
    /\ t = TK_EOS
    /\ lookahead = TK_EOS
    /\ fs = <<NewFuncState>>
    /\ cs = <<Frame("luaY_parser")>>
    /\ constindex = NewStrings
    /\ nlex = 0
    /\ linenumber = 1
    /\ lastline = 1
    /\ status = "run"
    /\ proto = <<>>

NextAdjust ==
    \/ luaY_parser \/ chunk \/ statement \/ localstat \/ exprstat \/ assignment
    \/ simpleexp \/ primaryexp \/ subexpr \/ explist1 \/ funcargs

SpecAdjust == InitAdjust /\ [][NextAdjust]_vars

\* the texts of the vocabulary "assign": assignments to local, global and
\* indexed targets, and the functions they reach
InitAssign ==
    /\ vocab = "assign"
    /\ t = TK_EOS
    /\ lookahead = TK_EOS
    /\ fs = <<NewFuncState>>
    /\ cs = <<Frame("luaY_parser")>>
    /\ constindex = NewStrings
    /\ nlex = 0
    /\ linenumber = 1
    /\ lastline = 1
    /\ status = "run"
    /\ proto = <<>>

NextAssign ==
    \/ luaY_parser \/ chunk \/ statement \/ localstat \/ exprstat \/ assignment
    \/ simpleexp \/ primaryexp \/ subexpr \/ explist1

SpecAssign == InitAssign /\ [][NextAssign]_vars

\* the texts of the vocabulary "list": calls with table constructors of
\* lists of names, calls and tables, and the functions they reach
InitList ==
    /\ vocab = "list"
    /\ t = TK_EOS
    /\ lookahead = TK_EOS
    /\ fs = <<NewFuncState>>
    /\ cs = <<Frame("luaY_parser")>>
    /\ constindex = NewStrings
    /\ nlex = 0
    /\ linenumber = 1
    /\ lastline = 1
    /\ status = "run"
    /\ proto = <<>>

NextList ==
    \/ luaY_parser \/ chunk \/ statement \/ exprstat \/ assignment
    \/ simpleexp \/ primaryexp \/ subexpr \/ funcargs
    \/ constructor \/ constructor_part \/ listfields

SpecList == InitList /\ [][NextList]_vars

(***************************************************************************)
(* The claims                                                              *)
(***************************************************************************)
\* the assertion point of chunk: a statement and its optional `;' are done
StatementBoundary ==
    status = "run" /\ cs # <<>> /\ Top(M).fn = "chunk" /\ Top(M).at = 2

\* C1: after every statement parsed by chunk, its optional `;' included, in
\* any function and at any block depth, the current function's symbolic
\* stack depth equals its number of active locals.
C1_StackBalanced ==
    StatementBoundary => CurFs(M).stacklevel = CurFs(M).nactloc

\* a statement inside a nested function that has emitted code and holds an
\* active local
C1_Witness ==
    /\ StatementBoundary
    /\ Len(fs) >= 2
    /\ CurFs(M).nactloc >= 1
    /\ pc(CurFs(M)) >= 2

\* the prototypes closed so far: the one luaY_parser returned, the ones in
\* the kproto vectors of the open functions, and all they nest
RECURSIVE Nested(_)
Nested(p) == {p} \cup UNION {Nested(p.kproto[i]) : i \in DOMAIN p.kproto}

ClosedProtos ==
    UNION {Nested(proto[i]) : i \in DOMAIN proto}
      \cup UNION {UNION {Nested(fs[j].kproto[i]) : i \in DOMAIN fs[j].kproto} :
                  j \in DOMAIN fs}

\* the instructions of p that hold a jump target: the jumps and the loop
\* instructions
JumpsOf(p) ==
    {i \in DOMAIN p.code :
        \/ ISJUMP(p.code[i].op)
        \/ p.code[i].op \in {"OP_FORPREP", "OP_FORLOOP", "OP_LFORPREP", "OP_LFORLOOP"}}

\* C2: in every prototype of a successful parse each jump instruction
\* (break, escape, false-exit, back-edge, FORPREP/FORLOOP, LFORPREP/LFORLOOP)
\* has been patched by the end of close_func to a target in [0, code_size):
\* none holds NO_JUMP, no break list is left open.
C2_JumpsPatched ==
    \A p \in ClosedProtos :
        /\ \A i \in JumpsOf(p) :
               p.code[i].a # NO_JUMP /\ p.code[i].a >= 0 /\ p.code[i].a < p.sizecode
        /\ p.bl = <<>>

\* a finished parse of a loop left by a break: a false-exit, a break jump
\* and a back-edge
C2_Witness ==
    /\ status = "done"
    /\ \E i, j, k \in JumpsOf(proto[1]) :
          /\ i < j /\ j < k
          /\ proto[1].code[i].op = "OP_JMPF"
          /\ proto[1].code[j].op = "OP_JMP" /\ proto[1].code[j].a > j
          /\ proto[1].code[k].op = "OP_JMP" /\ proto[1].code[k].a < k

\* C3: in every closed prototype every local-variable record ever registered
\* (user locals, parameters, self, arg, the hidden for-loop control
\* variables) was activated exactly once and deactivated exactly once, and
\* 0 <= startpc <= endpc <= code_size.
C3_LocvarsClosed ==
    \A p \in ClosedProtos : \A i \in DOMAIN p.locvars :
        /\ p.locvars[i].nstart = 1
        /\ p.locvars[i].nend = 1
        /\ 0 <= p.locvars[i].startpc
        /\ p.locvars[i].startpc <= p.locvars[i].endpc
        /\ p.locvars[i].endpc <= p.sizecode

\* a finished parse of a numeric for loop: its hidden control variables are
\* in the debug table of the prototype, closed before the final return
C3_Witness ==
    /\ status = "done"
    /\ \E i, j \in DOMAIN proto[1].locvars :
          /\ proto[1].locvars[i].varname = "(limit)"
          /\ proto[1].locvars[j].varname = "(step)"
          /\ proto[1].locvars[i].endpc < proto[1].sizecode

\* the calls of body whose function is open
OpenBodies == {k \in DOMAIN cs : cs[k].fn = "body" /\ cs[k].at >= 1}

\* what pushclosure leaves alone in the function it codes the closure in
Scope(f) ==
    [locvars |-> f.locvars, actloc |-> f.actloc, nactloc |-> f.nactloc,
     upvalues |-> f.upvalues, kstr |-> f.kstr, bl |-> f.bl,
     numparams |-> f.numparams, is_vararg |-> f.is_vararg]

Failed(st) == st \notin {"run", "done"}

C4_Nesting ==
    status = "run" => Len(fs) = 1 + Cardinality(OpenBodies)

C4_Step ==
    \* the prototype luaY_parser returns
    /\ status = "run" /\ status' = "done" =>
          /\ Len(fs) = 1 /\ fs' = <<>>
          /\ proto'[1].nupvalues = 0
    \* `%' in the main chunk
    /\ Running("primaryexp") /\ Top(M).at = 3 /\ Len(fs) = 1 => Failed(status')
    \* only body opens and closes functions while the parse goes on
    /\ status' = "run" /\ Len(fs') # Len(fs) => Running("body") /\ Top(M).at \in {0, 2}
    /\ Running("body") /\ Top(M).at = 0 /\ status' = "run" =>
          /\ Len(fs') = Len(fs) + 1
          /\ SubSeq(fs', 1, Len(fs)) = fs
    /\ Running("body") /\ Top(M).at = 2 /\ status' = "run" =>
          /\ Len(fs') = Len(fs) - 1
          /\ SubSeq(fs', 1, Len(fs) - 2) = SubSeq(fs, 1, Len(fs) - 2)
          /\ Scope(fs'[Len(fs')]) = Scope(fs[Len(fs) - 1])
          /\ Len(fs'[Len(fs')].kproto) = Len(fs[Len(fs) - 1].kproto) + 1

\* C4: the prototype of a successful parse has nupvalues = 0 and its
\* FuncState no parent: `%name' in the main chunk aborts the parse, and
\* when a nested function body is closed the current FuncState is again the
\* one that was current when the body was opened.
C4_MainHasNoUpvalues == [](C4_Nesting) /\ [][C4_Step]_vars

\* a finished parse whose main chunk holds a function with an upvalue
C4_Witness ==
    /\ status = "done"
    /\ Len(proto[1].kproto) = 1
    /\ proto[1].kproto[1].nupvalues = 1
    /\ proto[1].nupvalues = 0

\* the resume points at which a function has its chunk or block behind it
\* and only the closing of the block ahead
AfterBlock ==
    {<<"block", 1>>, <<"statement", 2>>, <<"whilestat", 2>>, <<"repeatstat", 1>>,
     <<"forbody", 1>>, <<"fornum", 4>>, <<"forlist", 4>>, <<"forstat", 2>>,
     <<"test_then_block", 2>>, <<"ifstat", 1>>, <<"ifstat", 2>>, <<"body", 2>>,
     <<"luaY_parser", 1>>}

\* a chunk has stopped in front of a token that cannot follow a block
Stranded ==
    /\ status = "run" /\ cs # <<>>
    /\ <<Top(M).fn, Top(M).at>> \in AfterBlock
    /\ ~block_follow(t.token)

C6_Step ==
    \* after a return or break, chunk takes at most one `;' ...
    /\ Running("chunk") /\ Top(M).at = 1 /\ Top(M).r = 1 /\ status' = "run" =>
          /\ Len(cs') = Len(cs)
          /\ cs'[Len(cs')].fn = "chunk" /\ cs'[Len(cs')].at = 2 /\ cs'[Len(cs')].islast
          /\ fs' = fs
          /\ IF t.token = ";" THEN nlex' > nlex ELSE t' = t /\ nlex' = nlex
    \* ... and stops
    /\ Running("chunk") /\ Top(M).at = 2 /\ Top(M).islast =>
          /\ status' = "run"
          /\ Len(cs') = Len(cs) - 1
          /\ fs' = fs /\ t' = t /\ nlex' = nlex
          /\ ~block_follow(t.token) => Stranded'
    \* from there the block is only closed, until the parse fails
    /\ Stranded =>
          \/ Failed(status')
          \/ /\ Stranded'
             /\ Len(cs') < Len(cs)
             /\ t' = t /\ nlex' = nlex

\* C6: a return or break statement is the last statement of its block:
\* after it chunk consumes at most one `;' and stops, so a following token
\* that cannot follow a block (a second `;', another statement) makes the
\* parse fail, and no later statement of the block is compiled.
C6_LastStatement == [](Stranded => status # "done") /\ [][C6_Step]_vars

\* `;' after the `;' of a return inside a nested block
C6_Witness ==
    /\ Stranded
    /\ Top(M).fn = "block"
    /\ t.token = ";"
    /\ PrevOp(CurFs(M)) = "OP_RETURN"

\* the vectors of every function stay within their caps
C7_InBounds ==
    /\ \A i \in DOMAIN fs :
          /\ Len(fs[i].actloc) <= MAXLOCALS
          /\ fs[i].nactloc <= MAXLOCALS
          /\ Len(fs[i].upvalues) <= MAXUPVALUES
          /\ fs[i].numparams <= MAXPARAMS
    /\ \A p \in ClosedProtos :
          p.nupvalues <= MAXUPVALUES /\ p.numparams <= MAXPARAMS

\* the step about to be taken declares local variables: how many slots the
\* function then needs, or 0
LocalsNeeded ==
    IF status # "run" \/ cs = <<>> THEN 0
    ELSE LET fr == Top(M)
             n == CurFs(M).nactloc
         IN CASE fr.fn = "localstat" /\ fr.at = 1 /\ t.token = "TK_NAME" ->
                   n + fr.nvars + 1
              [] fr.fn = "parlist" /\ fr.at \in {0, 1} /\ t.token = "TK_NAME" ->
                   n + fr.nparams + 1
              [] fr.fn = "parlist" /\ fr.at \in {0, 1} /\ t.token = "TK_DOTS"
                      /\ n + fr.nparams <= MAXPARAMS ->
                   n + fr.nparams + 1
              [] fr.fn = "fornum" /\ (fr.at = 3 \/ (fr.at = 2 /\ t.token # ",")) ->
                   n + 3
              [] fr.fn = "forlist" /\ fr.at = 3 -> n + 4
              [] OTHER -> 0

\* the step about to be taken ends a parameter list: how many parameters
\* the function then has (with self), or -1
ParamsDeclared ==
    IF ~Running("parlist") THEN -1
    ELSE LET fr == Top(M)
             n == CurFs(M).nactloc
         IN CASE fr.at = 0 /\ t.token = ")" -> n
              [] fr.at \in {0, 1} /\ t.token = "TK_DOTS" -> n + fr.nparams
              [] fr.at \in {0, 1} /\ t.token = "TK_NAME" -> n + fr.nparams + 1
              [] OTHER -> -1

C7_Step ==
    \* local variables: accepted up to MAXLOCALS, refused from MAXLOCALS + 1
    /\ LocalsNeeded > MAXLOCALS => status' = "too many local variables"
    /\ status' = "too many local variables" => LocalsNeeded > MAXLOCALS
    /\ LocalsNeeded \in 1..MAXLOCALS =>
          \/ status' = "too many parameters"
          \/ /\ status' = "run"
             /\ Len(fs'[Len(fs')].actloc) >= LocalsNeeded
    \* upvalues: a new one is refused when MAXUPVALUES are held
    /\ status' = "too many upvalues" =>
          /\ Running("primaryexp") /\ Top(M).at = 3
          /\ Len(CurFs(M).upvalues) = MAXUPVALUES
    /\ Running("primaryexp") /\ Top(M).at = 3 /\ status' = "run" =>
          /\ Len(fs'[Len(fs')].upvalues) \in
                {Len(CurFs(M).upvalues), Len(CurFs(M).upvalues) + 1}
          /\ PrevOp(fs'[Len(fs')]) = "OP_PUSHUPVALUE"
          /\ fs'[Len(fs')].code[pc(fs'[Len(fs')])].a < Len(fs'[Len(fs')].upvalues)
    \* parameters: counted with self when the list ends
    /\ status' = "too many parameters" => ParamsDeclared > MAXPARAMS
    /\ ParamsDeclared > MAXPARAMS /\ LocalsNeeded <= MAXLOCALS =>
          \/ status' = "too many parameters"
          \/ /\ status' = "run" /\ t.token = "TK_NAME"
             /\ Len(cs') = Len(cs) /\ cs'[Len(cs')].at = 2
    /\ Running("parlist") /\ status' = "run" /\ Len(cs') < Len(cs) =>
          /\ ParamsDeclared \in 0..MAXPARAMS
          /\ fs'[Len(fs')].numparams = ParamsDeclared

\* C7: the resource caps are exact and checked before storage is written: a
\* function with MAXLOCALS locals, MAXUPVALUES upvalues or MAXPARAMS
\* parameters (self counted) is accepted, one more raises the limit error
\* that names the resource, and no write to actloc[] or upvalues[] is at an
\* index beyond its cap.
C7_CapsExact == [](C7_InBounds) /\ [][C7_Step]_vars

\* a function accepted with MAXPARAMS parameters and MAXUPVALUES upvalues
C7_Witness ==
    /\ status = "run"
    /\ Len(fs) = 2
    /\ CurFs(M).numparams = MAXPARAMS
    /\ CurFs(M).nactloc = MAXPARAMS
    /\ Len(CurFs(M).upvalues) = MAXUPVALUES

\* the position in fs of the function that the call at position k of the C
\* stack compiles
FuncIndex(k) == 1 + Cardinality({j \in 1..(k - 1) : cs[j].fn = "body" /\ cs[j].at >= 1})

\* the local statements whose names are declared and not yet active
PendingLocals == {k \in DOMAIN cs : cs[k].fn = "localstat" /\ cs[k].at \in {1, 2, 3}}

\* the active slots of f that hold a local named n
ActiveSlots(f, n) ==
    {i \in 0..(f.nactloc - 1) : f.locvars[f.actloc[i + 1] + 1].varname = n}

C8_Step ==
    \* while the name list or the explist of a local statement is parsed
    \* its function's active locals are the ones of before the statement
    /\ \A k \in PendingLocals :
          (k < Len(cs) \/ Len(cs') >= Len(cs)) /\ status' = "run" =>
             LET f == fs[FuncIndex(k)]
                 g == fs'[FuncIndex(k)]
             IN /\ cs'[k].fn = "localstat" /\ cs'[k].nvars >= cs[k].nvars
                /\ g.nactloc = f.nactloc
                /\ SubSeq(g.actloc, 1, f.nactloc + cs[k].nvars)
                      = SubSeq(f.actloc, 1, f.nactloc + cs[k].nvars)
                /\ \A j \in 1..cs'[k].nvars :
                      /\ g.actloc[f.nactloc + j] = Len(g.locvars) - cs'[k].nvars + j - 1
                      /\ g.locvars[g.actloc[f.nactloc + j] + 1].nstart = 0
    \* a name of the explist resolves among them
    /\ /\ Running("primaryexp") /\ Top(M).at = 0 /\ t.token = "TK_NAME"
       /\ \E k \in PendingLocals : FuncIndex(k) = Len(fs) /\ cs[k].at = 3
       /\ status' = "run"
       => LET v == cs'[Len(cs')].r
              sl == ActiveSlots(CurFs(M), t.ts)
          IN IF sl # {}
             THEN v.k = "VLOCAL" /\ v.index \in sl
             ELSE v.k = "VGLOBAL"
    \* the statement ends: values adjusted to the k names, then the k locals
    \* active on the next slots, in the order of their declaration
    /\ Running("localstat") /\ status' = "run" /\ Len(cs') < Len(cs) =>
          LET f == CurFs(M)
              g == fs'[Len(fs')]
              k == IF Top(M).at = 1 THEN Top(M).nvars + 1 ELSE Top(M).nvars
          IN /\ Len(fs') = Len(fs)
             /\ g.nactloc = f.nactloc + k
             /\ g.stacklevel = g.nactloc
             /\ \A j \in 1..k :
                   /\ g.actloc[f.nactloc + j] = Len(g.locvars) - k + j - 1
                   /\ g.locvars[g.actloc[f.nactloc + j] + 1].nstart = 1
                   /\ g.locvars[g.actloc[f.nactloc + j] + 1].startpc = pc(g)

\* C8: in `local n1,...,nk = explist' no ni is visible while explist is
\* parsed: a name of explist resolves to the binding active before the
\* statement (an earlier active local of the function, otherwise a global);
\* the k locals become active, in declaration order on consecutive slots,
\* only after the values have been adjusted to k.
C8_LocalsHiddenInExplist == [][C8_Step]_vars

\* after `local x local x = x': the second x holds the value of the first
C8_Witness ==
    /\ status = "run" /\ Len(fs) = 1
    /\ CurFs(M).nactloc = 2
    /\ CurFs(M).stacklevel = 2
    /\ PrevOp(CurFs(M)) = "OP_GETLOCAL"
    /\ CurFs(M).code[pc(CurFs(M))].a = 0
    /\ CurFs(M).locvars[CurFs(M).actloc[2] + 1].startpc = pc(CurFs(M))

\* the step about to be taken resolves the bare name t.ts
ResolvesName ==
    /\ status = "run" /\ cs # <<>>
    /\ Top(M).fn \in {"primaryexp", "funcname"} /\ Top(M).at = 0
    /\ t.token = "TK_NAME"

HighestSlot(S) == CHOOSE i \in S : \A j \in S : j <= i

C9_Step ==
    ResolvesName =>
        LET n == t.ts
            here == ActiveSlots(CurFs(M), n)
            outside == \E i \in 1..(Len(fs) - 1) : ActiveSlots(fs[i], n) # {}
            v == IF Top(M).fn = "primaryexp" THEN cs'[Len(cs')].r ELSE cs'[Len(cs')].v
        IN IF here # {}
           THEN /\ status' = "run"
                /\ v.k = "VLOCAL" /\ v.index = HighestSlot(here)
                /\ fs' = fs
           ELSE IF outside
           THEN status' = "cannot access a variable in outer function"
           ELSE /\ status' = "run"
                /\ v.k = "VGLOBAL"
                /\ v.index \in 0..(Len(fs'[Len(fs')].kstr) - 1)
                /\ fs'[Len(fs')].kstr[v.index + 1] = n

\* C9: a bare name is VLOCAL with the highest active slot of that name in
\* the current function; otherwise, if an enclosing function at any distance
\* has an active local of that name, the parse fails with "cannot access a
\* variable in outer function"; otherwise it is VGLOBAL with the index of an
\* entry of the current function's string constants that holds the name.
C9_NameResolution == [][C9_Step]_vars

\* of two active locals x the name x has resolved to the later one
C9_Witness ==
    /\ Running("simpleexp") /\ Top(M).at = 1
    /\ Top(M).r.k = "VLOCAL"
    /\ Top(M).r.index = 1
    /\ ActiveSlots(CurFs(M), "x") = {0, 1}

\* the step about to be taken is pushupvalue of the name t.ts in a nested
\* function
CapturesName ==
    /\ Running("primaryexp") /\ Top(M).at = 3
    /\ t.token = "TK_NAME"
    /\ Len(fs) >= 2

Enclosing == fs[Len(fs) - 1]

\* t.ts names a binding %name may refer to: a local of the enclosing
\* function, or a global
Capturable ==
    /\ ActiveSlots(CurFs(M), t.ts) = {}
    /\ \/ ActiveSlots(Enclosing, t.ts) # {}
       \/ \A i \in DOMAIN fs : ActiveSlots(fs[i], t.ts) = {}

\* the index string_constant gives t.ts in the enclosing function
EnclosingConstant ==
    IF /\ constindex[t.ts] < Len(Enclosing.kstr)
       /\ Enclosing.kstr[constindex[t.ts] + 1] = t.ts
    THEN constindex[t.ts]
    ELSE Len(Enclosing.kstr)

\* the descriptor of t.ts as an upvalue: kind and index
Descriptor ==
    IF ActiveSlots(Enclosing, t.ts) # {}
    THEN <<"VLOCAL", HighestSlot(ActiveSlots(Enclosing, t.ts))>>
    ELSE <<"VGLOBAL", EnclosingConstant>>

\* the upvalues of the current function that hold that descriptor
Held ==
    {i \in DOMAIN CurFs(M).upvalues :
        <<CurFs(M).upvalues[i].k, CurFs(M).upvalues[i].index>> = Descriptor}

C10_Distinct ==
    \A i \in DOMAIN fs : \A a, b \in DOMAIN fs[i].upvalues :
        /\ fs[i].upvalues[a].k = fs[i].upvalues[b].k
        /\ fs[i].upvalues[a].index = fs[i].upvalues[b].index
        => a = b

C10_Step ==
    CapturesName =>
        LET f == CurFs(M)
            g == fs'[Len(fs')]
        IN /\ status' = "run" => Capturable
           /\ Capturable /\ Held # {} => status' = "run"
           /\ status' = "run" =>
                 /\ PrevOp(g) = "OP_PUSHUPVALUE"
                 /\ IF Held # {}
                    THEN /\ g.upvalues = f.upvalues
                         /\ g.code[pc(g)].a + 1 \in Held
                    ELSE /\ Len(g.upvalues) = Len(f.upvalues) + 1
                         /\ SubSeq(g.upvalues, 1, Len(f.upvalues)) = f.upvalues
                         /\ <<g.upvalues[Len(g.upvalues)].k,
                              g.upvalues[Len(g.upvalues)].index>> = Descriptor
                         /\ g.code[pc(g)].a = Len(f.upvalues)

Captured ==
    {IF CurFs(M).upvalues[i].k = "VLOCAL"
     THEN <<"local", CurFs(M).upvalues[i].index>>
     ELSE <<"global", Enclosing.kstr[CurFs(M).upvalues[i].index + 1]>> :
         i \in DOMAIN CurFs(M).upvalues}

Binding ==
    IF ActiveSlots(Enclosing, t.ts) # {}
    THEN <<"local", HighestSlot(ActiveSlots(Enclosing, t.ts))>>
    ELSE <<"global", t.ts>>

LeavesLoop ==
    /\ status = "run" /\ cs # <<>>
    /\ Top(M).fn \in {"whilestat", "repeatstat", "forstat"}
    /\ Top(M).at >= 2

\* the step about to be taken opens a loop: enterbreak
EntersLoop ==
    /\ status = "run" /\ cs # <<>>
    /\ Top(M).fn \in {"whilestat", "repeatstat", "forstat"}
    /\ Top(M).at = 0

\* the instruction at pc of p
At(p, at) == p.code[at + 1]

\* where the jump of break b of p has been patched to
BreakTarget(p, b) == At(p, p.breaks[b].pc).a

\* the first instruction after the loop break b of p was written in
LoopExit(p, b) == p.loops[p.breaks[b].loop]

C11_Closed ==
    \A p \in ClosedProtos :
        /\ p.bl = <<>>
        /\ \A l \in DOMAIN p.loops : p.loops[l] >= 0 /\ p.loops[l] < p.sizecode
        /\ \A b \in DOMAIN p.breaks :
              /\ At(p, p.breaks[b].pc).op = "OP_JMP"
              /\ p.breaks[b].pc < LoopExit(p, b)
              /\ BreakTarget(p, b) = LoopExit(p, b)

C11_Step ==
    \* a loop is opened by pushing a label with an empty list
    /\ EntersLoop /\ status' = "run" =>
          /\ Len(fs') = Len(fs)
          /\ SubSeq(fs'[Len(fs')].bl, 1, Len(CurFs(M).bl)) = CurFs(M).bl
          /\ Len(fs'[Len(fs')].bl) = Len(CurFs(M).bl) + 1
          /\ fs'[Len(fs')].bl[Len(fs'[Len(fs')].bl)].breaklist = NO_JUMP
          /\ fs'[Len(fs')].bl[Len(fs'[Len(fs')].bl)].stacklevel = CurFs(M).stacklevel
    \* the label a loop leaves is the last one entered, at its stack level
    /\ LeavesLoop /\ status' = "run" =>
          /\ Top(M).bl = Len(CurFs(M).bl)
          /\ CurFs(M).bl[Top(M).bl].stacklevel = CurFs(M).stacklevel
          /\ Len(fs') = Len(fs)
          /\ fs'[Len(fs')].bl = SubSeq(CurFs(M).bl, 1, Len(CurFs(M).bl) - 1)
    \* no other step changes the chain of a function, but break its top list
    /\ status' = "run" /\ Len(fs') = Len(fs) /\ ~EntersLoop /\ ~LeavesLoop =>
          /\ Len(fs'[Len(fs')].bl) = Len(CurFs(M).bl)
          /\ \A i \in 1..(Len(CurFs(M).bl) - 1) : fs'[Len(fs')].bl[i] = CurFs(M).bl[i]
    \* break looks for its loop in the current function only
    /\ Running("breakstat") /\ CurFs(M).bl = <<>> => status' = "no loop to break"
    /\ Running("breakstat") /\ CurFs(M).bl # <<>> =>
          /\ status' = "run"
          /\ Len(fs'[Len(fs')].breaks) = Len(CurFs(M).breaks) + 1
          /\ fs'[Len(fs')].breaks[Len(fs'[Len(fs')].breaks)].loop =
                CurFs(M).bl[Len(CurFs(M).bl)].id
          /\ fs'[Len(fs')].stacklevel = CurFs(M).stacklevel
    \* a function starts with an empty chain
    /\ status' = "run" /\ Len(fs') > Len(fs) => fs'[Len(fs')].bl = <<>>

\* C11: every jump emitted by a break statement is patched, when its loop is
\* closed, to the first instruction after the innermost loop (while, repeat
\* or for) of the current function that encloses the break, never to the
\* exit of an outer loop, of a sibling loop or of a loop of an enclosing
\* function (there a break is the error `no loop to break'); break labels
\* are entered and left in strict LIFO order, and the break chain of a
\* function is empty when the function is closed.
C11_BreakToInnermostLoop == [](C11_Closed) /\ [][C11_Step]_vars

\* a finished parse with a loop in a loop, each left by a break: the inner
\* break goes to the inner loop's exit, where the outer break was coded, the
\* outer break to the outer loop's exit
C11_Witness ==
    /\ status = "done"
    /\ Len(proto[1].loops) = 2
    /\ \E b, c \in DOMAIN proto[1].breaks :
          /\ proto[1].breaks[b].loop = 1
          /\ BreakTarget(proto[1], b) = LoopExit(proto[1], b)
          /\ proto[1].breaks[c].loop = 2
          /\ BreakTarget(proto[1], c) = proto[1].breaks[b].pc
          /\ LoopExit(proto[1], c) < LoopExit(proto[1], b)

\* the step about to be taken leaves the parser running or finished
Goes == status = "run" /\ status' \in {"run", "done"}

\* what next tests: ls->lookahead.token is TK_EOS
Empty == lookahead.token = "TK_EOS"

\* a lexer result is in the look-ahead buffer: a token, or the end of the
\* stream (the lexer has just delivered it and it is not the current token)
Stashed == ~Empty \/ (nlex = EndOfStream /\ t.token # "TK_EOS")

\* the step calls the lexer, which delivers tk
Lexes(tk) ==
    nlex' = IF tk.token = "TK_EOS" /\ nlex < EndOfStream THEN EndOfStream ELSE nlex + 1

\* the step takes no token
Idle == t' = t /\ lookahead' = lookahead /\ nlex' = nlex

\* next, with a token in the buffer
Promotes == ~Empty /\ t' = lookahead /\ lookahead' = TK_EOS /\ nlex' = nlex

\* next, with ls->lookahead.token at TK_EOS
Reads == Empty /\ lookahead' = TK_EOS /\ Lexes(t') /\ nlex' # nlex

\* lookahead, past a current token
LooksAhead ==
    Empty /\ t.token # "TK_EOS" /\ t' = t /\ Lexes(lookahead') /\ nlex' # nlex

C12_Step ==
    Goes =>
       \* one token at a time, through the buffer
       /\ Idle \/ Promotes \/ Reads \/ LooksAhead
       \* a stashed token is the next one to become current, and no lexer call
       /\ Stashed /\ ~Empty /\ ~Idle => Promotes
       \* a stashed end of stream is not: the lexer is called once more
       /\ Stashed /\ Empty /\ ~Idle =>
             Reads /\ t' = TK_EOS /\ nlex' = EndOfStream + 1
       \* lookahead is called with nothing stashed, by statement at `function'
       \* and by constructor_part at a name
       /\ LooksAhead =>
             /\ ~Stashed
             /\ \/ Top(M).fn = "statement" /\ t.token = "TK_FUNCTION"
                \/ Top(M).fn = "constructor_part" /\ t.token = "TK_NAME"
       \* nothing is read after the end of the stream has become current
       /\ t.token = "TK_EOS" /\ nlex >= EndOfStream => Idle

\* C12 (as amended): the tokens that become current are the lexer's tokens in
\* order, up to the end of the stream: each step takes no token, or promotes
\* the stashed token without calling the lexer, or reads the lexer's next
\* token with nothing stashed, or stashes the lexer's next token with nothing
\* stashed; lookahead() is never invoked while a token is stashed.  A stashed
\* end of stream is the exception: TK_EOS marks the buffer empty, so the next
\* call of next() calls the lexer again, which delivers the end of the
\* stream a second time, and the stashed result is dropped.
C12_LookAheadBuffer == [](nlex <= EndOfStream + 1) /\ [][C12_Step]_vars

\* a record field whose name was looked ahead of and promoted, then a field
\* at the end of the stream: the end was stashed, and delivered again
C12_Witness ==
    /\ status = "run"
    /\ nlex = EndOfStream + 1
    /\ t = TK_EOS
    /\ \E i \in DOMAIN CurFs(M).code : CurFs(M).code[i].op = "OP_SETMAP"

\* C12 (as stated): after lookahead() stashes a token, the next call of
\* next() promotes that stashed token without calling the lexer, whatever the
\* stashed token is (end-of-stream included); each lexer result is used once.
C12_PromotesAnyStash ==
    [][Goes /\ Stashed /\ ~Idle => t' = lookahead /\ lookahead' = TK_EOS /\ nlex' = nlex]_vars

Unary == {"OPR_MINUS", "OPR_NOT"}

Binary ==
    {"OPR_ADD", "OPR_SUB", "OPR_MULT", "OPR_DIV", "OPR_POW", "OPR_CONCAT", "OPR_NE",
     "OPR_EQ", "OPR_LT", "OPR_LE", "OPR_GT", "OPR_GE", "OPR_AND", "OPR_OR"}

LeftPriority(op) == priority(op)[1]

\* how far the right operand of an operator extends
RightPriority(op) == IF op \in Unary THEN UNARY_PRIORITY ELSE priority(op)[2]

\* of two adjacent operators, the left one is applied first
LeftFirst(op1, op2) == RightPriority(op1) >= LeftPriority(op2)

\* the expression a history of operands and operators is of: its operands
\* and operators in the order of the text
RECURSIVE Spell(_, _, _)
Spell(post, i, stack) ==
    IF i > Len(post) THEN stack
    ELSE LET n == Len(stack)
         IN CASE post[i] = "operand" -> Spell(post, i + 1, Append(stack, <<"operand">>))
              [] post[i] \in Unary ->
                   Spell(post, i + 1, [stack EXCEPT ![n] = <<post[i]>> \o @])
              [] OTHER ->
                   Spell(post, i + 1,
                         Append(SubSeq(stack, 1, n - 2),
                                stack[n - 1] \o <<post[i]>> \o stack[n]))

Yield(post) == Spell(post, 1, <<>>)[1]

\* the order in which the operators of a text are applied when, of two
\* adjacent operators, the left one is applied first exactly when LeftFirst
RECURSIVE Group(_, _, _, _)
Group(text, i, pending, out) ==
    IF i > Len(text)
    THEN out \o [k \in 1..Len(pending) |-> pending[Len(pending) + 1 - k]]
    ELSE LET n == Len(pending)
         IN CASE text[i] = "operand" -> Group(text, i + 1, pending, Append(out, text[i]))
              [] text[i] \in Unary -> Group(text, i + 1, Append(pending, text[i]), out)
              [] OTHER ->
                   IF n > 0 /\ LeftFirst(pending[n], text[i])
                   THEN Group(text, i, SubSeq(pending, 1, n - 1), Append(out, pending[n]))
                   ELSE Group(text, i + 1, Append(pending, text[i]), out)

Grouped(text) == Group(text, 1, <<>>, <<>>)

\* what the table says of every operator
C13_Table ==
    /\ \A op \in Binary \ {"OPR_CONCAT", "OPR_POW"} : LeftFirst(op, op)
    /\ \A op \in {"OPR_CONCAT", "OPR_POW"} : ~LeftFirst(op, op)
    /\ \A u \in Unary : \A op \in Binary : ~LeftFirst(u, op) <=> op = "OPR_POW"

\* the call of subexpr that is running
Sub == Top(M)

\* the operands and operators the running call of subexpr has read, once it
\* has returned
SubApplied == SubSeq(fs'[Len(fs')].applied, Sub.from + 1, Len(fs'[Len(fs')].applied))

C13_Step ==
    Running("subexpr") /\ status' = "run" =>
       \* subexpr reads an operator: its left priority is above the limit, and
       \* its right operand is read up to its right priority
       /\ Sub.at >= 1 /\ Len(cs') > Len(cs) =>
             /\ getbinopr(t.token) \in Binary
             /\ LeftPriority(getbinopr(t.token)) > Sub.limit
             /\ cs'[Len(cs')].limit = RightPriority(getbinopr(t.token))
             /\ nlex' > nlex
       \* a unary operator: its operand is read up to UNARY_PRIORITY
       /\ Sub.at = 0 /\ getunopr(t.token) \in Unary =>
             cs'[Len(cs')].fn = "subexpr" /\ cs'[Len(cs')].limit = UNARY_PRIORITY
       \* subexpr returns: the operator it returns is the current token, and
       \* what it has read is grouped as the table prescribes
       /\ Len(cs') < Len(cs) =>
             /\ t' = t /\ nlex' = nlex
             /\ cs'[Len(cs')].r.op = getbinopr(t.token)
             /\ getbinopr(t.token) \in Binary => LeftPriority(getbinopr(t.token)) <= Sub.limit
             /\ SubApplied = Grouped(Yield(SubApplied))

\* C13: subexpr groups every sequence of operands and operators as the
\* (left, right) priority table prescribes: of two adjacent binary operators
\* the left one is applied first exactly when its right priority is >= the
\* next one's left priority (+ - * /, the comparisons and and/or
\* left-associative, .. and ^ right-associative), a unary operator's operand
\* extends over a following ^ and over no other binary operator, and
\* subexpr(limit) returns the first operator whose left priority is <= limit
\* without consuming it.
C13_Grouping == [](C13_Table) /\ [][C13_Step]_vars

\* the expression - x ^ x .. x has been read: the power applied first, then
\* the minus, then the concatenation
C13_Witness ==
    /\ StatementBoundary
    /\ CurFs(M).applied =
          <<"operand", "operand", "OPR_POW", "OPR_MINUS", "operand", "OPR_CONCAT">>

\* the step about to be taken calls adjust_mult_assign: localstat when it
\* returns, assignment after the explist
Adjusts ==
    /\ status = "run" /\ cs # <<>> /\ status' = "run"
    /\ \/ Top(M).fn = "localstat" /\ Len(cs') < Len(cs)
       \/ Top(M).fn = "assignment" /\ Top(M).at = 3

\* its arguments
AdjustVars ==
    IF Top(M).fn = "localstat" /\ Top(M).at = 1 THEN Top(M).nvars + 1 ELSE Top(M).nvars

AdjustExps == IF Top(M).at = 3 THEN Top(M).r ELSE 0

\* the store of the last target, which assignment codes in the same step
Stores == IF Top(M).fn = "assignment" THEN 1 ELSE 0

\* the last instruction is a call with its return count open
OpenCall(f) ==
    pc(f) > 0 /\ f.code[pc(f)].op = "OP_CALL" /\ f.code[pc(f)].b = MULT_RET

AdjustedTo(f, g, nvars, nexps) ==
    IF nexps > 0 /\ OpenCall(f)
    THEN \* the call provides the values that are missing, or none
         /\ g.code[pc(f)] =
               [f.code[pc(f)] EXCEPT !.b = IF nvars - (nexps - 1) > 0
                                             THEN nvars - (nexps - 1) ELSE 0]
         /\ SubSeq(g.code, 1, pc(f) - 1) = SubSeq(f.code, 1, pc(f) - 1)
         /\ IF nexps - 1 - nvars > 0
            THEN /\ pc(g) = pc(f) + 1 + Stores
                 /\ g.code[pc(f) + 1] = Ins("OP_POP", nexps - 1 - nvars, 0)
            ELSE pc(g) = pc(f) + Stores
         /\ g.stacklevel = f.stacklevel - (nexps - 1) + nvars - Stores
    ELSE \* no call is touched; nils are pushed or values popped
         /\ SubSeq(g.code, 1, pc(f)) = f.code
         /\ CASE nvars > nexps ->
                   /\ pc(g) = pc(f) + 1 + Stores
                   /\ g.code[pc(f) + 1] = Ins("OP_PUSHNIL", nvars - nexps, 0)
              [] nexps > nvars ->
                   /\ pc(g) = pc(f) + 1 + Stores
                   /\ g.code[pc(f) + 1] = Ins("OP_POP", nexps - nvars, 0)
              [] OTHER -> pc(g) = pc(f) + Stores
         /\ g.stacklevel = f.stacklevel - nexps + nvars - Stores

C14_Step ==
    Adjusts =>
       /\ AdjustVars >= 1 /\ AdjustExps >= 0
       /\ Len(fs') = Len(fs)
       /\ AdjustedTo(CurFs(M), fs'[Len(fs')], AdjustVars, AdjustExps)
       \* each declared local has its value
       /\ Top(M).fn = "localstat" => fs'[Len(fs')].stacklevel = fs'[Len(fs')].nactloc

\* C14: adjust_mult_assign(nvars, nexps) leaves exactly nvars values for the
\* targets, for all nvars >= 1 and nexps >= 0: if nexps > 0 and the last
\* expression is an open call, the call's return count is set to
\* max(nvars - (nexps - 1), 0) and a surplus of nexps - 1 - nvars is popped;
\* otherwise nvars - nexps nils are pushed or nexps - nvars values popped;
\* with nexps = 0 no call's return count is touched.
C14_ExactlyNvars == [][C14_Step]_vars

\* local x = x, x, x(): three expressions for one variable, the last an open
\* call; the call returns nothing and one value is popped
C14_Witness ==
    /\ StatementBoundary
    /\ CurFs(M).nactloc = 1
    /\ pc(CurFs(M)) >= 2
    /\ CurFs(M).code[pc(CurFs(M))] = Ins("OP_POP", 1, 0)
    /\ CurFs(M).code[pc(CurFs(M)) - 1].op = "OP_CALL"
    /\ CurFs(M).code[pc(CurFs(M)) - 1].b = 0

\* the targets of the assignment being parsed are the assignment frames of
\* the C stack, in the order of the text; the indexed ones among those
\* below frame k
IndexedBefore(k) ==
    Cardinality({j \in 1..(k - 1) : cs[j].fn = "assignment" /\ cs[j].v.k = "VINDEXED"})

TargetsBefore(k) == Cardinality({j \in 1..(k - 1) : cs[j].fn = "assignment"})

\* the stack depth before the statement (C1)
Base == CurFs(M).nactloc

\* the stack slot of the table of the indexed target of frame k: every
\* indexed target before it holds a table and a key
TableSlot(k) == Base + 2 * IndexedBefore(k)

StoreOps == {"OP_SETLOCAL", "OP_SETGLOBAL", "OP_SETTABLE"}

\* the indexed stores among the stores that end the code of f
RECURSIVE IndexedStores(_, _)
IndexedStores(f, at) ==
    IF at = 0 \/ f.code[at].op \notin StoreOps THEN 0
    ELSE (IF f.code[at].op = "OP_SETTABLE" THEN 1 ELSE 0) + IndexedStores(f, at - 1)

\* a target has been read: it is the next in the list, and an indexed one
\* has its table and key on top of the stack
C15_Targets ==
    status = "run" /\ cs # <<>> /\ Top(M).fn = "assignment" /\ Top(M).at = 0 =>
       /\ Top(M).nvars = TargetsBefore(Len(cs)) + 1
       /\ Top(M).v.k \in {"VLOCAL", "VGLOBAL", "VINDEXED"}
       /\ CurFs(M).stacklevel =
             TableSlot(Len(cs)) + (IF Top(M).v.k = "VINDEXED" THEN 2 ELSE 0)

\* what the stores of the targets after this one have left on the stack
LeftIn == IF Top(M).at = 2 THEN Top(M).r ELSE 0

\* the slots this target and the targets after it hold below the values
Garbage == (IF Top(M).v.k = "VINDEXED" THEN 2 ELSE 0) + LeftIn

C15_Step ==
    /\ Running("assignment") /\ Top(M).at >= 2 /\ status' = "run" =>
          LET g == fs'[Len(fs')]
              last == g.code[pc(g)]
          IN \* the store follows the store of the next target, if any
             /\ Top(M).at = 2 =>
                   /\ pc(g) = pc(CurFs(M)) + 1
                   /\ CurFs(M).code[pc(CurFs(M))].op \in StoreOps
                   /\ LeftIn = 2 * IndexedStores(CurFs(M), pc(CurFs(M)))
             \* the value stored was on top, at this target's position in
             \* the list: the values of the targets before it remain
             /\ g.stacklevel = TableSlot(Len(cs)) + Garbage + (Top(M).nvars - 1)
             /\ last.op \in StoreOps
             /\ Top(M).v.k = "VLOCAL" => last = Ins("OP_SETLOCAL", Top(M).v.index, 0)
             /\ Top(M).v.k = "VGLOBAL" => last = Ins("OP_SETGLOBAL", Top(M).v.index, 0)
             \* the operand of SETTABLE, counted from the top before the
             \* store, is the slot of this target's table; one value is popped
             /\ Top(M).v.k = "VINDEXED" =>
                   /\ last.op = "OP_SETTABLE" /\ last.b = 1
                   /\ last.a = LeftIn + Top(M).nvars + 2
                   /\ (g.stacklevel + 1) - last.a = TableSlot(Len(cs))
             /\ cs'[Len(cs')].r = Garbage
    \* exprstat pops what assignment returns: 2 per indexed target
    /\ Running("exprstat") /\ Top(M).at = 2 /\ status' = "run" =>
          /\ Top(M).r = 2 * IndexedStores(CurFs(M), pc(CurFs(M)))
          /\ fs'[Len(fs')].stacklevel = CurFs(M).stacklevel - Top(M).r
          /\ fs'[Len(fs')].stacklevel = Base

\* C15: in a multiple assignment with any mix of local, global and indexed
\* targets the stores are coded from the last target to the first, each
\* target is stored the value at its position in the adjusted list, the
\* operand left+nvars+2 of SETTABLE designates the target's own table slot,
\* and the count returned to exprstat and popped there is 2 per indexed
\* target, which leaves the stack at its depth before the statement.
C15_Stores == [](C15_Targets) /\ [][C15_Step]_vars

\* x.x, x.x = x: the store of the second target, then the store of the first
\* over the table and key of the second, and four slots popped
C15_Witness ==
    /\ StatementBoundary
    /\ pc(CurFs(M)) >= 3
    /\ CurFs(M).code[pc(CurFs(M))] = Ins("OP_POP", 4, 0)
    /\ CurFs(M).code[pc(CurFs(M)) - 1] = Ins("OP_SETTABLE", 5, 1)
    /\ CurFs(M).code[pc(CurFs(M)) - 2] = Ins("OP_SETTABLE", 4, 1)

\* the batches of a list of n elements, and the elements of the last one
BatchCount(n) == (n + LFIELDS_PER_FLUSH - 1) \div LFIELDS_PER_FLUSH

Remaining(n) == n - LFIELDS_PER_FLUSH * ((n - 1) \div LFIELDS_PER_FLUSH)

\* the batch operands of the SETLIST instructions that f has coded after the
\* instruction at pc `from' for the table at stack level level
Batches(f, from, level) ==
    LET IsBatch(i) == i.op = "OP_SETLIST" /\ i.b = level
        batch == SelectSeq(SubSeq(f.code, from + 2, Len(f.code)), IsBatch)
    IN [k \in DOMAIN batch |-> batch[k].a]

\* listfields has read an element; the function once that element is pushed
ListStep == Running("listfields") /\ Top(M).at = 1 /\ status' = "run"

Pushed(onlyone) == luaK_tostack(CurFs(M), Top(M).r.v, onlyone).f

C16_Step ==
    \* another element follows
    /\ ListStep /\ Len(cs') > Len(cs) =>
          /\ cs'[Len(cs)].n = Top(M).n + 1
          /\ ~OpenCall(Pushed(TRUE))
          /\ IF Top(M).n % LFIELDS_PER_FLUSH = 0
             THEN \* LFIELDS_PER_FLUSH single values since the last flush
                  /\ Pushed(TRUE).stacklevel = Top(M).t + 1 + LFIELDS_PER_FLUSH
                  /\ fs'[Len(fs')].code =
                        Append(Pushed(TRUE).code,
                               Ins("OP_SETLIST", Top(M).n \div LFIELDS_PER_FLUSH - 1, Top(M).t))
                  /\ fs'[Len(fs')].stacklevel = Top(M).t + 1
             ELSE /\ Pushed(TRUE).stacklevel =
                        Top(M).t + 1 + (Top(M).n % LFIELDS_PER_FLUSH)
                  /\ fs'[Len(fs')].code = Pushed(TRUE).code
                  /\ fs'[Len(fs')].stacklevel = Pushed(TRUE).stacklevel
    \* the list ends, after a comma or not
    /\ ListStep /\ Len(cs') < Len(cs) =>
          /\ Top(M).n >= 1
          /\ Remaining(Top(M).n) \in 1..LFIELDS_PER_FLUSH
          /\ OpenCall(CurFs(M)) => OpenCall(Pushed(FALSE))
          /\ Pushed(FALSE).stacklevel =
                Top(M).t + 1 + Remaining(Top(M).n) - (IF OpenCall(CurFs(M)) THEN 1 ELSE 0)
          /\ fs'[Len(fs')].code =
                Append(Pushed(FALSE).code,
                       Ins("OP_SETLIST", BatchCount(Top(M).n) - 1, Top(M).t))
          /\ fs'[Len(fs')].stacklevel = Top(M).t + 1
          /\ Batches(fs'[Len(fs')], cs[Len(cs) - 2].pc, Top(M).t) =
                [k \in 1..BatchCount(Top(M).n) |-> k - 1]
          /\ cs'[Len(cs')].r = Top(M).n
    \* n goes through constructor_part into the operand of CREATETABLE
    /\ Running("constructor_part") /\ Top(M).at = 1 /\ status' = "run" =>
          cs'[Len(cs')].r.n = Top(M).r
    /\ Running("constructor") /\ Top(M).at >= 1 /\ status' = "run" /\ Len(cs') < Len(cs) =>
          fs'[Len(fs')].code[Top(M).pc + 1] =
             Ins("OP_CREATETABLE",
                 IF Top(M).at = 1 THEN Top(M).r.n ELSE Top(M).cd.n + Top(M).r.n, 0)

\* C16: for a list part of n >= 1 elements, with or without a trailing
\* comma, listfields codes SETLIST with the batch operands 0, 1, ...,
\* ceil(n / LFIELDS_PER_FLUSH) - 1 in that order, each but the last when
\* exactly LFIELDS_PER_FLUSH single values have been pushed since the last
\* flush, the last one for the remaining 1..LFIELDS_PER_FLUSH elements with
\* the last expression left open, and returns n, which is added into the
\* operand of CREATETABLE.
C16_Batches == [][C16_Step]_vars

\* x {x, x, x {}}: three elements, the last an open call; a flush after two,
\* then the batch of the last one
C16_Witness ==
    /\ StatementBoundary
    /\ \E i, j, k \in DOMAIN CurFs(M).code :
          /\ i < j /\ j < k
          /\ CurFs(M).code[i] = Ins("OP_CREATETABLE", 3, 0)
          /\ CurFs(M).code[j].op = "OP_SETLIST" /\ CurFs(M).code[j].a = 0
          /\ CurFs(M).code[k].op = "OP_SETLIST" /\ CurFs(M).code[k].a = 1
          /\ CurFs(M).code[k].b = CurFs(M).code[j].b
          /\ CurFs(M).code[k - 1].op = "OP_CALL" /\ CurFs(M).code[k - 1].b = MULT_RET

=============================================================================
